---- MODULE Spec2Model ----
(***************************************************************************)
(* Verification model of the Velox engine's lock-free substrate:           *)
(*   - RingBuffer  (src/src/ring.rs): SPSC queue, one producer thread      *)
(*     executing push and one consumer thread executing pop, interleaved   *)
(*     at the level of the individual atomic loads and stores;             *)
(*   - OrderBook   (src/src/orderbook.rs): bounded CAS loops on the level  *)
(*     quantities and CAS loops on the best prices, several writers;       *)
(*   - BundleBuilder (src/src/bundle.rs): the size-or-timeout accumulator  *)
(*     in front of the output queue, one action per call;                  *)
(*   - Backoff (src/src/backoff.rs): the idle consumer's snooze steps;     *)
(*   - LatencyHistogram (src/src/histogram.rs): record() calls of several  *)
(*     threads interleaved at the level of the atomic operations, and      *)
(*     percentile() on a quiescent histogram;                              *)
(*   - Transaction (src/src/types.rs): the validating constructor and the  *)
(*     32-byte wire encoding;                                              *)
(*   - the pipeline runtime (src/src/main.rs): the four workers, the       *)
(*     shutdown flag, drain_pipeline and the join.                         *)
(* Each component has its own specification (SpecRing, SpecBook,           *)
(* SpecBookSeq, SpecBookWorker, SpecBundle, SpecBackoff, SpecHist,         *)
(* SpecPct, SpecTypes, SpecPipe and, with fair scheduling of the threads,  *)
(* SpecPipeFair and SpecPipeSteady); the variables of the other components *)
(* stay at their initial values.                                           *)
(***************************************************************************)
EXTENDS Integers, Sequences, FiniteSets, TLC

(***************************************************************************)
(* Bounds of the model.                                                    *)
(***************************************************************************)
\* log2 of the ring capacity (const N: usize, a power of two)
LogN == 1
\* width of the head/tail counters in the model (AtomicU64 in the source)
WordBits == 2
\* number of push calls the producer issues
MaxPush == 5
\* number of distinct values offered to push
NumValues == 2
\* width of a signed integer in the model (i64 in the source)
IntBits == 16
\* bound of the CAS loop on a level quantity; the source's value is 100, the
\* model scales it down so that the timeout is reached under contention
MAX_RETRIES == 3
\* number of update calls each thread issues when several threads write
MaxCalls == 1
\* number of update calls issued in single-writer use
MaxCallsSeq == 3
\* number of events the orderbook worker applies to its book
MaxCallsWorker == 3
\* number of distinct timestamps passed to the updates
NumTs == 1
\* number of add calls issued to the bundle builder
MaxAdds == 18
\* number of flush and force_flush calls issued to the bundle builder
MaxFlushes == 2
\* number of times the clock advances between the calls of the builder
MaxTicks == 2
\* capacity of the output queue in the model (RingBuffer<Bundle, 1024> in
\* the source)
OutCap == 1
\* calibrated TSC ticks per nanosecond (measured at start-up in the source)
TicksPerNs == 2
\* number of snooze calls issued to the backoff
MaxSnoozes == 14
\* width of the backoff's step counter in the model (u32 in the source)
StepBits == 8
\* number of threads recording into the latency histogram
NumRecorders == 2
\* number of record calls each of them issues
MaxRecords == 2
\* width of the histogram's counters in the model (AtomicU64 in the source);
\* wide enough for a sample of the last bucket
U64Bits == 20
\* the denominator of the fractions passed to percentile
PctDen == 4
\* log2 of the capacity of the pipeline's bundle queue (1024 in the source;
\* its event queues have capacity N)
LogBundleCap == 0
\* number of events the ingress worker generates
MaxGenerated == 3
\* capacity of a bundle in the pipeline; the source's value is
\* BUNDLE_MAX = 16, the model scales it down so that a bundle fills with the
\* events generated
PipeBundleMax == 3

(***************************************************************************)
(* Machine arithmetic.                                                     *)
(***************************************************************************)
RECURSIVE Pow2(_)
Pow2(k) == IF k = 0 THEN 1 ELSE 2 * Pow2(k - 1)

\* bitwise AND of two naturals
RECURSIVE BitAnd(_, _)
BitAnd(a, b) ==
    IF a = 0 \/ b = 0 THEN 0
    ELSE (a % 2) * (b % 2) + 2 * BitAnd(a \div 2, b \div 2)

\* ring capacity
N == Pow2(LogN)
\* head and tail are unsigned words: arithmetic is modulo WordMod
WordMod == Pow2(WordBits)

\* seeded fault: the difference taken without wrapping
wrapping_subMutPlain(a, b) == a - b
wrapping_sub(a, b) == (a - b + WordMod) % WordMod
wrapping_add(a, b) == (a + b) % WordMod

Values == 1 .. NumValues
\* content of a slot never written (MaybeUninit::uninit())
Uninit == 0

(***************************************************************************)
(* State.                                                                  *)
(***************************************************************************)
VARIABLES
    head,       \* RingBuffer.head  (written by the producer only)
    tail,       \* RingBuffer.tail  (written by the consumer only)
    slots,      \* RingBuffer.slots, index 0 .. N-1
    prod,       \* the producer thread: position in push and its locals
    cons,       \* the consumer thread: position in pop and its locals
    pushed,     \* history: values accepted by successful pushes, in order
    popped,     \* history: values returned by successful pops, in order
    offered,    \* history: number of push calls issued
    quiet       \* history: no push was issued since the current/last pop began

ringVars == <<head, tail, slots, prod, cons, pushed, popped, offered, quiet>>

VARIABLES
    bids,       \* OrderBook.bids: level -> [quantity, timestamp]
    asks,       \* OrderBook.asks
    best_bid,   \* OrderBook.best_bid
    best_ask,   \* OrderBook.best_ask
    th,         \* writer threads: position in update_bid/update_ask, locals
    applied,    \* history: side -> level -> sum of the deltas of the Ok calls
    hi_bid,     \* history: highest bid price whose update left a quantity > 0
    lo_ask,     \* history: lowest ask price whose update left a quantity > 0
    depleted,   \* history: side -> some update left a quantity <= 0
    ncalls      \* history: thread -> number of calls issued

bookVars == <<bids, asks, best_bid, best_ask, th, applied, hi_bid, lo_ask,
              depleted, ncalls>>

VARIABLES
    builder,    \* BundleBuilder: [buffer, count, start_tsc]
    outq,       \* the output queue the builder pushes to (oldest first)
    tsc,        \* the time stamp counter read by rdtsc()
    bcall,      \* history: the last call on the builder and what it did
    emitted,    \* history: the bundles pushed to the output queue, in order
    run,        \* history: the adds since the builder was last empty
    pending,    \* history: the builder as the last failed flush left it
    nadds,      \* history: number of add calls issued
    nflushes,   \* history: number of flush and force_flush calls issued
    nticks      \* history: number of clock advances

bundleVars == <<builder, outq, tsc, bcall, emitted, run, pending, nadds,
                nflushes, nticks>>

VARIABLES
    step,       \* Backoff.step
    snz,        \* the call of snooze in progress: position, spins left
    did,        \* history: what the current or last snooze did to wait
    since,      \* history: snooze calls begun since new() or reset()
    spinning,   \* history: the last answer of is_spinning()
    bop,        \* history: the last call made on the backoff
    nsnoozes    \* history: number of snooze calls issued

backoffVars == <<step, snz, did, since, spinning, bop, nsnoozes>>

VARIABLES
    buckets,            \* LatencyHistogram.buckets, index 0 .. 12
    total_samples,      \* LatencyHistogram.total_samples
    total_latency_ns,   \* LatencyHistogram.total_latency_ns
    min_latency_ns,     \* LatencyHistogram.min_latency_ns
    max_latency_ns,     \* LatencyHistogram.max_latency_ns
    min_mo,             \* the values min_latency_ns has held
    max_mo,             \* the values max_latency_ns has held
    ht,                 \* recording threads: position in record, locals
    seen,               \* history: the samples passed to record
    sum_ns,             \* history: their sum, not reduced to the word size
    nrecords            \* history: thread -> number of record calls issued

histVars == <<buckets, total_samples, total_latency_ns, min_latency_ns,
              max_latency_ns, min_mo, max_mo, ht, seen, sum_ns, nrecords>>

\* LatencyHistogram::percentile, called between the record calls
VARIABLES
    pq                  \* the last percentile call: its argument and result

pctVars == <<pq>>

\* Transaction (src/src/types.rs): construction and serialization
VARIABLES
    tcall               \* the last constructor call, and the to_bytes and
                        \* from_bytes calls made on its result

typesVars == <<tcall>>

\* the pipeline runtime (src/src/main.rs)
VARIABLES
    shutdown,           \* the shared AtomicBool
    qhead,              \* queue -> RingBuffer.head
    qtail,              \* queue -> RingBuffer.tail
    qslots,             \* queue -> RingBuffer.slots
    pc,                 \* thread -> position in its function
    loc,                \* thread -> locals: the index loaded by the push
                        \* or pop in progress, the event held, prev_len
    bld,                \* builder's owner -> the events buffered, in order
    stats,              \* the counters of Stats
    next_id,            \* ingress_worker's next_id
    book,               \* owner of an OrderBook -> the number of events
                        \* applied to it
    ph                  \* history: npop1, the number of events the
                        \* orderbook worker popped from Q1; fwd, the ranks
                        \* (among those pops) of the events it pushed to Q2;
                        \* npop2, the number of events popped from Q2;
                        \* emitted, the ranks (among those pops) of the
                        \* events of the bundles pushed to Q3, in push
                        \* order; nemit3, the number of those bundles;
                        \* npop3, the number of bundles popped from Q3;
                        \* dpop1, the number of events drain_pipeline
                        \* popped from Q1; dfwd, the number of events it
                        \* pushed to Q2;
                        \* full, the queue whose push the last step found
                        \* full (0: none)

pipeVars == <<shutdown, qhead, qtail, qslots, pc, loc, bld, stats, next_id,
              book, ph>>

vars == <<ringVars, bookVars, bundleVars, backoffVars, histVars, pctVars,
          typesVars, pipeVars>>

\* the variables a step of one component leaves alone
notRingVars == <<bookVars, bundleVars, backoffVars, histVars, pctVars,
    typesVars, pipeVars>>
notBookVars == <<ringVars, bundleVars, backoffVars, histVars, pctVars,
    typesVars, pipeVars>>
notBundleVars == <<ringVars, bookVars, backoffVars, histVars, pctVars,
    typesVars, pipeVars>>
notBackoffVars == <<ringVars, bookVars, bundleVars, histVars, pctVars,
    typesVars, pipeVars>>
notHistVars == <<ringVars, bookVars, bundleVars, backoffVars, pctVars,
    typesVars, pipeVars>>
notPctVars == <<ringVars, bookVars, bundleVars, backoffVars, histVars,
    typesVars, pipeVars>>
notTypesVars == <<ringVars, bookVars, bundleVars, backoffVars, histVars,
    pctVars, pipeVars>>
notPipeVars == <<ringVars, bookVars, bundleVars, backoffVars, histVars,
    pctVars, typesVars>>

(***************************************************************************)
(* RingBuffer::new                                                         *)
(***************************************************************************)
\* locals of a call: pc, the arguments, the values loaded, the result returned;
\* occ is a history field: the occupancy of the queue at the call's second load
ProdIdle == [pc |-> "idle", value |-> Uninit, head |-> 0, tail |-> 0,
             result |-> "none", ret |-> Uninit, occ |-> 0]
ConsIdle == [pc |-> "idle", tail |-> 0, head |-> 0, value |-> Uninit,
             result |-> "none", ret |-> Uninit, occ |-> 0]

RingInit ==
    /\ head = 0
    /\ tail = 0
    /\ slots = [i \in 0 .. N - 1 |-> Uninit]
    /\ prod = ProdIdle
    /\ cons = ConsIdle
    /\ pushed = <<>>
    /\ popped = <<>>
    /\ offered = 0
    /\ quiet = FALSE

(***************************************************************************)
(* RingBuffer::push, one action per load, store and branch.                *)
(***************************************************************************)
\* seeded fault: the full test written with > instead of >=
IsFullMutGreater(h, t) == wrapping_sub(h, t) > N
\* if head.wrapping_sub(tail) >= N
IsFull(h, t) == wrapping_sub(h, t) >= N

\* seeded fault: every value goes to slot 0
SlotIndexMutZero(i) == 0
\* (head as usize) & (N - 1)
SlotIndex(i) == BitAnd(i, N - 1)

PushCall(v) ==
    /\ prod.pc = "idle"
    /\ offered < MaxPush
    /\ prod' = [ProdIdle EXCEPT !.pc = "load_head", !.value = v]
    /\ offered' = offered + 1
    /\ quiet' = FALSE
    /\ UNCHANGED <<head, tail, slots, cons, pushed, popped>>
    /\ UNCHANGED notRingVars

\* let head = self.head.value.load(Relaxed)
PushLoadHead ==
    /\ prod.pc = "load_head"
    /\ prod' = [prod EXCEPT !.pc = "load_tail", !.head = head]
    /\ UNCHANGED <<head, tail, slots, cons, pushed, popped, offered, quiet>>
    /\ UNCHANGED notRingVars

\* let tail = self.tail.value.load(Acquire)
PushLoadTail ==
    /\ prod.pc = "load_tail"
    /\ prod' = [prod EXCEPT !.pc = "check", !.tail = tail,
                             !.occ = wrapping_sub(head, tail)]
    /\ UNCHANGED <<head, tail, slots, cons, pushed, popped, offered, quiet>>
    /\ UNCHANGED notRingVars

\* if full { return Err(value) }
PushCheck ==
    /\ prod.pc = "check"
    /\ IF IsFull(prod.head, prod.tail)
         THEN prod' = [prod EXCEPT !.pc = "idle", !.result = "Err",
                                   !.ret = prod.value]
         ELSE prod' = [prod EXCEPT !.pc = "write"]
    /\ UNCHANGED <<head, tail, slots, cons, pushed, popped, offered, quiet>>
    /\ UNCHANGED notRingVars

\* ptr::write(slot, MaybeUninit::new(value))
PushWrite ==
    /\ prod.pc = "write"
    /\ slots' = [slots EXCEPT ![SlotIndex(prod.head)] = prod.value]
    /\ prod' = [prod EXCEPT !.pc = "store_head"]
    /\ UNCHANGED <<head, tail, cons, pushed, popped, offered, quiet>>
    /\ UNCHANGED notRingVars

\* self.head.value.store(head.wrapping_add(1), Release); Ok(())
PushStoreHead ==
    /\ prod.pc = "store_head"
    /\ head' = wrapping_add(prod.head, 1)
    /\ pushed' = Append(pushed, prod.value)
    /\ prod' = [prod EXCEPT !.pc = "idle", !.result = "Ok"]
    /\ UNCHANGED <<tail, slots, cons, popped, offered, quiet>>
    /\ UNCHANGED notRingVars

(***************************************************************************)
(* RingBuffer::pop                                                         *)
(***************************************************************************)
\* seeded fault: the empty test written with > instead of ==
IsEmptyMutGreater(t, h) == t > h
\* if tail == head
IsEmpty(t, h) == t = h

\* ptr::read(slot).assume_init(): reading a slot that was never written is
\* undefined behaviour, the value obtained is arbitrary
SlotRead(i) == IF slots[i] = Uninit THEN Values ELSE {slots[i]}

PopCall ==
    /\ cons.pc = "idle"
    /\ cons' = [ConsIdle EXCEPT !.pc = "load_tail"]
    /\ quiet' = (prod.pc = "idle")
    /\ UNCHANGED <<head, tail, slots, prod, pushed, popped, offered>>
    /\ UNCHANGED notRingVars

\* let tail = self.tail.value.load(Relaxed)
PopLoadTail ==
    /\ cons.pc = "load_tail"
    /\ cons' = [cons EXCEPT !.pc = "load_head", !.tail = tail]
    /\ UNCHANGED <<head, tail, slots, prod, pushed, popped, offered, quiet>>
    /\ UNCHANGED notRingVars

\* let head = self.head.value.load(Acquire)
PopLoadHead ==
    /\ cons.pc = "load_head"
    /\ cons' = [cons EXCEPT !.pc = "check", !.head = head,
                             !.occ = wrapping_sub(head, tail)]
    /\ UNCHANGED <<head, tail, slots, prod, pushed, popped, offered, quiet>>
    /\ UNCHANGED notRingVars

\* if empty { return None }
PopCheck ==
    /\ cons.pc = "check"
    /\ IF IsEmpty(cons.tail, cons.head)
         THEN cons' = [cons EXCEPT !.pc = "idle", !.result = "None"]
         ELSE cons' = [cons EXCEPT !.pc = "read"]
    /\ UNCHANGED <<head, tail, slots, prod, pushed, popped, offered, quiet>>
    /\ UNCHANGED notRingVars

\* let value = ptr::read(slot).assume_init()
PopRead ==
    /\ cons.pc = "read"
    /\ \E v \in SlotRead(SlotIndex(cons.tail)) :
          cons' = [cons EXCEPT !.pc = "store_tail", !.value = v]
    /\ UNCHANGED <<head, tail, slots, prod, pushed, popped, offered, quiet>>
    /\ UNCHANGED notRingVars

\* self.tail.value.store(tail.wrapping_add(1), Release); Some(value)
PopStoreTail ==
    /\ cons.pc = "store_tail"
    /\ tail' = wrapping_add(cons.tail, 1)
    /\ popped' = Append(popped, cons.value)
    /\ cons' = [cons EXCEPT !.pc = "idle", !.result = "Some",
                            !.ret = cons.value]
    /\ UNCHANGED <<head, slots, prod, pushed, offered, quiet>>
    /\ UNCHANGED notRingVars

PushStep ==
    \/ \E v \in Values : PushCall(v)
    \/ PushLoadHead
    \/ PushLoadTail
    \/ PushCheck
    \/ PushWrite
    \/ PushStoreHead

PopStep ==
    \/ PopCall
    \/ PopLoadTail
    \/ PopLoadHead
    \/ PopCheck
    \/ PopRead
    \/ PopStoreTail

RingNext == PushStep \/ PopStep

(***************************************************************************)
(* OrderBook (src/src/orderbook.rs).                                       *)
(***************************************************************************)
LEVELS == 1024
TICK_SHIFT == 4
LEVEL_MASK == LEVELS - 1

I64_MAX == Pow2(IntBits - 1) - 1
I64_MIN == 0 - Pow2(IntBits - 1)

\* x as usize: the two's complement reading of a signed integer
as_usize(x) == x % Pow2(IntBits)

\* price >> TICK_SHIFT (arithmetic shift of a signed integer)
ShiftRight(x, k) == (x - (x % Pow2(k))) \div Pow2(k)

\* ((price >> TICK_SHIFT) as usize) & LEVEL_MASK
level_index(price) == BitAnd(as_usize(ShiftRight(price, TICK_SHIFT)), LEVEL_MASK)

\* seeded fault: wrapping_add in place of checked_add
checked_add_MutWrapping(a, b) ==
    [some |-> TRUE,
     val |-> ((a + b - I64_MIN) % Pow2(IntBits)) + I64_MIN]
\* current.checked_add(delta): None when the sum does not fit an i64
checked_add(a, b) ==
    IF a + b > I64_MAX \/ a + b < I64_MIN
      THEN [some |-> FALSE, val |-> 0]
      ELSE [some |-> TRUE, val |-> a + b]

\* inputs of the model: writer threads, sides, prices, deltas, timestamps.
\* Prices 16 and 16400 (16 + 16384) share level 1, price 32 is on level 2.
Threads == 1 .. 2
Sides == {"bid", "ask"}
Prices == {16, 32, 16400}
Deltas == {1, 0 - 1, I64_MAX}
Timestamps == 1 .. NumTs
\* the levels the prices of the model map to (the others are never touched);
\* i64::MAX is a price the orderbook worker may be handed
Levels == {level_index(p) : p \in Prices \cup {I64_MAX}}

\* PriceLevel { quantity: 0, timestamp: 0 }
INIT == [quantity |-> 0, timestamp |-> 0]

\* locals of an update call; backoff is the spin count of the next miss
ThIdle == [pc |-> "idle", side |-> "bid", price |-> 0, delta |-> 0,
           timestamp |-> 0, attempt |-> 0, backoff |-> 1, current |-> 0,
           new_qty |-> 0, current_best |-> 0, result |-> "none"]

\* OrderBook::new
BookInit ==
    /\ bids = [l \in Levels |-> INIT]
    /\ asks = [l \in Levels |-> INIT]
    /\ best_bid = 0
    /\ best_ask = I64_MAX
    /\ th = [t \in Threads |-> ThIdle]
    /\ applied = [s \in Sides |-> [l \in Levels |-> 0]]
    /\ hi_bid = 0
    /\ lo_ask = I64_MAX
    /\ depleted = [s \in Sides |-> FALSE]
    /\ ncalls = [t \in Threads |-> 0]

\* the side's level array and best price
LevelsOf(side) == IF side = "bid" THEN bids ELSE asks
BestOf(side) == IF side = "bid" THEN best_bid ELSE best_ask

\* pub fn bid_quantity / ask_quantity (price)
bid_quantity(price) == bids[level_index(price)].quantity
ask_quantity(price) == asks[level_index(price)].quantity

\* update_best_bid: while price > current_best; update_best_ask: while price <
\* current_best
IsBetter(side, price, current_best) ==
    IF side = "bid" THEN price > current_best ELSE price < current_best

\* seeded fault: the loop is left after a failed CAS (Err(_) => break)
BestRetryMutBreak(side, price, x) == FALSE
\* the loop condition evaluated again after a failed CAS returned Err(x)
BestRetry(side, price, x) == IsBetter(side, price, x)

\* seeded fault: update_best_ask stores 0 like update_best_bid
ClearedBestMutZero(side) == 0
\* the value stored when the best level is depleted: 0 / i64::MAX
ClearedBest(side) == IF side = "bid" THEN 0 ELSE I64_MAX

\* seeded fault: the best price is cleared whatever the price depleted
IsBestPriceMutAlways(price, current_best) == TRUE
\* if price == current_best
IsBestPrice(price, current_best) == price = current_best

\* seeded fault: a plain store in place of the compare-and-swap
CasMatchesMutStore(actual, expected) == TRUE
\* compare_exchange_weak succeeds only if the value is the expected one
CasMatches(actual, expected) == actual = expected

\* seeded fault: the loop written 0..=MAX_RETRIES
RetriesExhaustedMutOneMore(attempt) == attempt > MAX_RETRIES
\* for _ in 0..MAX_RETRIES: the loop ends after MAX_RETRIES misses
RetriesExhausted(attempt) == attempt >= MAX_RETRIES

\* return from update_bid / update_ask
Return(t, res) ==
    /\ th' = [th EXCEPT ![t] = [ThIdle EXCEPT !.result = res]]
    /\ applied' =
         IF res = "Ok"
           THEN [applied EXCEPT ![th[t].side][level_index(th[t].price)] =
                                   @ + th[t].delta]
           ELSE applied

\* pub fn update_bid / update_ask (price, delta, timestamp)
UpdateCall(t, side, price, delta, ts) ==
    /\ th[t].pc = "idle"
    /\ th' = [th EXCEPT ![t] = [ThIdle EXCEPT !.pc = "load", !.side = side,
                                  !.price = price, !.delta = delta,
                                  !.timestamp = ts, !.result = "pending"]]
    /\ ncalls' = [ncalls EXCEPT ![t] = @ + 1]
    /\ UNCHANGED <<bids, asks, best_bid, best_ask, applied, hi_bid, lo_ask,
                   depleted>>
    /\ UNCHANGED notBookVars

\* let current = level.quantity.load(Acquire);
\* let new_qty = current.checked_add(delta).ok_or(QuantityOverflow)?
LoadQuantity(t) ==
    /\ th[t].pc = "load"
    /\ LET current == LevelsOf(th[t].side)[level_index(th[t].price)].quantity
           sum == checked_add(current, th[t].delta)
       IN  IF sum.some
             THEN /\ th' = [th EXCEPT ![t].pc = "cas", ![t].current = current,
                                      ![t].new_qty = sum.val]
                  /\ UNCHANGED applied
             ELSE Return(t, "QuantityOverflow")
    /\ UNCHANGED <<bids, asks, best_bid, best_ask, hi_bid, lo_ask, depleted,
                   ncalls>>
    /\ UNCHANGED notBookVars

\* seeded fault: the new quantity is stored on both sides of the book
CasQuantityOkMutBothSides(t) ==
    /\ th[t].pc = "cas"
    /\ LET side == th[t].side
           idx == level_index(th[t].price)
       IN  /\ CasMatches(LevelsOf(side)[idx].quantity, th[t].current)
           /\ bids' = [bids EXCEPT ![idx].quantity = th[t].new_qty]
           /\ asks' = [asks EXCEPT ![idx].quantity = th[t].new_qty]
           /\ hi_bid' = IF side = "bid" /\ th[t].new_qty > 0 /\ th[t].price > hi_bid
                          THEN th[t].price ELSE hi_bid
           /\ lo_ask' = IF side = "ask" /\ th[t].new_qty > 0 /\ th[t].price < lo_ask
                          THEN th[t].price ELSE lo_ask
           /\ depleted' = IF th[t].new_qty > 0 THEN depleted
                          ELSE [depleted EXCEPT ![side] = TRUE]
    /\ th' = [th EXCEPT ![t].pc = "store_ts"]
    /\ UNCHANGED <<best_bid, best_ask, applied, ncalls>>
    /\ UNCHANGED notBookVars

\* compare_exchange_weak(current, new_qty, Release, Relaxed) => Ok(_)
CasQuantityOk(t) ==
    /\ th[t].pc = "cas"
    /\ LET side == th[t].side
           idx == level_index(th[t].price)
       IN  /\ CasMatches(LevelsOf(side)[idx].quantity, th[t].current)
           /\ IF side = "bid"
                THEN /\ bids' = [bids EXCEPT ![idx].quantity = th[t].new_qty]
                     /\ asks' = asks
                ELSE /\ asks' = [asks EXCEPT ![idx].quantity = th[t].new_qty]
                     /\ bids' = bids
           /\ hi_bid' = IF side = "bid" /\ th[t].new_qty > 0 /\ th[t].price > hi_bid
                          THEN th[t].price ELSE hi_bid
           /\ lo_ask' = IF side = "ask" /\ th[t].new_qty > 0 /\ th[t].price < lo_ask
                          THEN th[t].price ELSE lo_ask
           /\ depleted' = IF th[t].new_qty > 0 THEN depleted
                          ELSE [depleted EXCEPT ![side] = TRUE]
    /\ th' = [th EXCEPT ![t].pc = "store_ts"]
    /\ UNCHANGED <<best_bid, best_ask, applied, ncalls>>
    /\ UNCHANGED notBookVars

\* compare_exchange_weak => Err(_): the value differs, or the weak CAS fails
\* spuriously; spin backoff times, double backoff, next iteration or
\* Err(Timeout) after the loop
CasQuantityErr(t) ==
    /\ th[t].pc = "cas"
    /\ IF RetriesExhausted(th[t].attempt + 1)
         THEN Return(t, "Timeout")
         ELSE /\ th' = [th EXCEPT ![t].pc = "load",
                                  ![t].attempt = @ + 1,
                                  ![t].backoff = IF @ * 2 < 64 THEN @ * 2 ELSE 64]
              /\ UNCHANGED applied
    /\ UNCHANGED <<bids, asks, best_bid, best_ask, hi_bid, lo_ask, depleted,
                   ncalls>>
    /\ UNCHANGED notBookVars

\* level.timestamp.store(timestamp, Relaxed); self.update_best_*(price, new_qty)
StoreTimestamp(t) ==
    /\ th[t].pc = "store_ts"
    /\ LET idx == level_index(th[t].price)
       IN  IF th[t].side = "bid"
             THEN /\ bids' = [bids EXCEPT ![idx].timestamp = th[t].timestamp]
                  /\ asks' = asks
             ELSE /\ asks' = [asks EXCEPT ![idx].timestamp = th[t].timestamp]
                  /\ bids' = bids
    /\ th' = [th EXCEPT ![t].pc = IF th[t].new_qty > 0 THEN "best_load"
                                  ELSE "deplete_load"]
    /\ UNCHANGED <<best_bid, best_ask, applied, hi_bid, lo_ask, depleted,
                   ncalls>>
    /\ UNCHANGED notBookVars

\* new_qty > 0: let mut current_best = self.best_*.value.load(Relaxed);
\* while price is better than current_best { ... }
BestLoad(t) ==
    /\ th[t].pc = "best_load"
    /\ LET current_best == BestOf(th[t].side)
       IN  IF IsBetter(th[t].side, th[t].price, current_best)
             THEN /\ th' = [th EXCEPT ![t].pc = "best_cas",
                                      ![t].current_best = current_best]
                  /\ UNCHANGED applied
             ELSE Return(t, "Ok")
    /\ UNCHANGED <<bids, asks, best_bid, best_ask, hi_bid, lo_ask, depleted,
                   ncalls>>
    /\ UNCHANGED notBookVars

\* compare_exchange_weak(current_best, price, Relaxed, Relaxed) => Ok(_) => break
BestCasOk(t) ==
    /\ th[t].pc = "best_cas"
    /\ CasMatches(BestOf(th[t].side), th[t].current_best)
    /\ IF th[t].side = "bid"
         THEN best_bid' = th[t].price /\ best_ask' = best_ask
         ELSE best_ask' = th[t].price /\ best_bid' = best_bid
    /\ Return(t, "Ok")
    /\ UNCHANGED <<bids, asks, hi_bid, lo_ask, depleted, ncalls>>
    /\ UNCHANGED notBookVars

\* compare_exchange_weak => Err(x) => current_best = x (a real or a spurious
\* failure); then the while condition again
BestCasErr(t) ==
    /\ th[t].pc = "best_cas"
    /\ LET x == BestOf(th[t].side)
       IN  IF BestRetry(th[t].side, th[t].price, x)
             THEN /\ th' = [th EXCEPT ![t].current_best = x]
                  /\ UNCHANGED applied
             ELSE Return(t, "Ok")
    /\ UNCHANGED <<bids, asks, best_bid, best_ask, hi_bid, lo_ask, depleted,
                   ncalls>>
    /\ UNCHANGED notBookVars

\* new_qty <= 0: let current_best = self.best_*.value.load(Relaxed);
\* if price == current_best { ... }
DepleteLoad(t) ==
    /\ th[t].pc = "deplete_load"
    /\ LET current_best == BestOf(th[t].side)
       IN  IF IsBestPrice(th[t].price, current_best)
             THEN /\ th' = [th EXCEPT ![t].pc = "deplete_store",
                                      ![t].current_best = current_best]
                  /\ UNCHANGED applied
             ELSE Return(t, "Ok")
    /\ UNCHANGED <<bids, asks, best_bid, best_ask, hi_bid, lo_ask, depleted,
                   ncalls>>
    /\ UNCHANGED notBookVars

\* self.best_bid.value.store(0, Relaxed) / best_ask.store(i64::MAX, Relaxed)
DepleteStore(t) ==
    /\ th[t].pc = "deplete_store"
    /\ IF th[t].side = "bid"
         THEN best_bid' = ClearedBest("bid") /\ best_ask' = best_ask
         ELSE best_ask' = ClearedBest("ask") /\ best_bid' = best_bid
    /\ Return(t, "Ok")
    /\ UNCHANGED <<bids, asks, hi_bid, lo_ask, depleted, ncalls>>
    /\ UNCHANGED notBookVars

\* one step of a call in progress
UpdateStep(t) ==
    \/ LoadQuantity(t)
    \/ CasQuantityOk(t)
    \/ CasQuantityErr(t)
    \/ StoreTimestamp(t)
    \/ BestLoad(t)
    \/ BestCasOk(t)
    \/ BestCasErr(t)
    \/ DepleteLoad(t)
    \/ DepleteStore(t)

\* a thread issues a call with any arguments
AnyCall(t) ==
    \E side \in Sides, price \in Prices, delta \in Deltas, ts \in Timestamps :
        UpdateCall(t, side, price, delta, ts)

\* several threads share the book, each issuing MaxCalls calls
BookNext ==
    \E t \in Threads :
        \/ ncalls[t] < MaxCalls /\ AnyCall(t)
        \/ UpdateStep(t)

\* single-writer use: thread 1 alone issues MaxCallsSeq calls
BookSeqNext ==
    \/ ncalls[1] < MaxCallsSeq /\ AnyCall(1)
    \/ UpdateStep(1)

(***************************************************************************)
(* BundleBuilder (src/src/bundle.rs).  A builder is owned by one thread    *)
(* (&mut self), so a call is one step.  The k-th add call offers the event *)
(* k, so that the events of a bundle tell which adds they came from.       *)
(***************************************************************************)
BUNDLE_MAX == 16
BUNDLE_TIMEOUT_NS == 100000

\* the events offered to add; NoTxn is the placeholder filling a new buffer
NoTxn == 0
BufIdx == 0 .. BUNDLE_MAX - 1

\* (tsc as f64 / factor) as u64, for a factor of TicksPerNs ticks per ns
tsc_to_ns(t) == t \div TicksPerNs

\* the clock advances by one tick or by one tick less than the timeout
TickSteps == {1, BUNDLE_TIMEOUT_NS * TicksPerNs - 1}

\* BundleBuilder::new, with rdtsc() reading the initial clock
new_builder(now) ==
    [buffer |-> [i \in BufIdx |-> NoTxn], count |-> 0, start_tsc |-> now]

\* Bundle::with_transactions_unchecked
with_transactions_unchecked(transactions, cnt, timestamp_ns) ==
    [transactions |-> transactions, count |-> cnt,
     timestamp_ns |-> timestamp_ns]

\* RingBuffer::push as the producer sees it: Err on a full queue
ring_push(ring, value) ==
    IF Len(ring) >= OutCap
    THEN [ok |-> FALSE, ring |-> ring]
    ELSE [ok |-> TRUE, ring |-> Append(ring, value)]

\* seeded fault: the comparison with the timeout is strict
should_flush_timeoutMutStrict(self, now) ==
    IF self.count = 0 THEN FALSE
    ELSE tsc_to_ns(now - self.start_tsc) > BUNDLE_TIMEOUT_NS

\* BundleBuilder::should_flush_timeout, rdtsc() reading now
should_flush_timeout(self, now) ==
    IF self.count = 0 THEN FALSE
    ELSE tsc_to_ns(now - self.start_tsc) >= BUNDLE_TIMEOUT_NS

\* seeded fault: no early return on an empty builder
flushMutNoEmptyCheck(self, ring, now) ==
    LET bundle == with_transactions_unchecked(self.buffer, self.count,
                                              tsc_to_ns(self.start_tsc))
        p == ring_push(ring, bundle)
    IN  IF ~p.ok
        THEN [ok |-> FALSE, self |-> self, ring |-> ring, pushed |-> 0]
        ELSE [ok |-> TRUE,
              self |-> [self EXCEPT !.count = 0, !.start_tsc = now],
              ring |-> p.ring, pushed |-> 1]

\* seeded fault: the builder is reset although the push failed
flushMutResetOnFull(self, ring, now) ==
    IF self.count = 0
    THEN [ok |-> TRUE, self |-> self, ring |-> ring, pushed |-> 0]
    ELSE LET bundle == with_transactions_unchecked(self.buffer, self.count,
                                                   tsc_to_ns(self.start_tsc))
             p == ring_push(ring, bundle)
         IN  [ok |-> p.ok,
              self |-> [self EXCEPT !.count = 0, !.start_tsc = now],
              ring |-> p.ring, pushed |-> IF p.ok THEN 1 ELSE 0]

\* seeded fault: the builder keeps its events after a successful push
flushMutKeepsCount(self, ring, now) ==
    IF self.count = 0
    THEN [ok |-> TRUE, self |-> self, ring |-> ring, pushed |-> 0]
    ELSE LET bundle == with_transactions_unchecked(self.buffer, self.count,
                                                   tsc_to_ns(self.start_tsc))
             p == ring_push(ring, bundle)
         IN  IF ~p.ok
             THEN [ok |-> FALSE, self |-> self, ring |-> ring, pushed |-> 0]
             ELSE [ok |-> TRUE,
                   self |-> [self EXCEPT !.start_tsc = now],
                   ring |-> p.ring, pushed |-> 1]

\* BundleBuilder::flush: the result, the builder and the queue after it
flush(self, ring, now) ==
    IF self.count = 0
    THEN [ok |-> TRUE, self |-> self, ring |-> ring, pushed |-> 0]
    ELSE LET bundle == with_transactions_unchecked(self.buffer, self.count,
                                                   tsc_to_ns(self.start_tsc))
             p == ring_push(ring, bundle)
         IN  IF ~p.ok
             THEN [ok |-> FALSE, self |-> self, ring |-> ring, pushed |-> 0]
             ELSE [ok |-> TRUE,
                   self |-> [self EXCEPT !.count = 0, !.start_tsc = now],
                   ring |-> p.ring, pushed |-> 1]

\* seeded fault: the flush before appending waits for count > BUNDLE_MAX
FlushBeforeAppendMutGreater(self, now) ==
    self.count > BUNDLE_MAX \/ (self.count > 0 /\ should_flush_timeout(self, now))

\* add, the condition of the flush before appending
FlushBeforeAppend(self, now) ==
    self.count >= BUNDLE_MAX \/ (self.count > 0 /\ should_flush_timeout(self, now))

\* seeded fault: the flush after appending waits for count > BUNDLE_MAX
FlushAfterAppendMutGreater(self) == self.count > BUNDLE_MAX

\* add, the condition of the flush after appending
FlushAfterAppend(self) == self.count >= BUNDLE_MAX

\* BundleBuilder::add: what the call returns and leaves behind.  before and
\* after tell whether the two flushes were attempted, slot is the index
\* written (-1 when the call returned before the write); an index outside
\* the buffer panics
add(self, txn, ring, now) ==
    LET before == FlushBeforeAppend(self, now)
        f1 == IF before THEN flush(self, ring, now)
              ELSE [ok |-> TRUE, self |-> self, ring |-> ring, pushed |-> 0]
    IN  IF ~f1.ok
        THEN [ret |-> "BundleFull", self |-> self, ring |-> ring,
              before |-> before, after |-> FALSE, slot |-> 0 - 1,
              pushed |-> 0]
        ELSE
        LET s1 == IF f1.self.count = 0
                  THEN [f1.self EXCEPT !.start_tsc = now] ELSE f1.self
        IN  IF s1.count \notin BufIdx
            THEN [ret |-> "panic", self |-> s1, ring |-> f1.ring,
                  before |-> before, after |-> FALSE, slot |-> s1.count,
                  pushed |-> f1.pushed]
            ELSE
            LET s2 == [s1 EXCEPT !.buffer[s1.count] = txn,
                                 !.count = s1.count + 1]
                after == FlushAfterAppend(s2)
                f2 == IF after THEN flush(s2, f1.ring, now)
                      ELSE [ok |-> TRUE, self |-> s2, ring |-> f1.ring,
                            pushed |-> 0]
            IN  [ret |-> IF f2.ok THEN "Ok" ELSE "BundleFull",
                 self |-> f2.self, ring |-> f2.ring,
                 before |-> before, after |-> after, slot |-> s1.count,
                 pushed |-> f1.pushed + f2.pushed]

\* BundleBuilder::force_flush
force_flush(self, ring, now) == flush(self, ring, now)

\* the last call: had, elapsed, room and retry describe the state it began
\* in (count, ticks since start_tsc, room in the queue, after a failed flush)
NoCall == [op |-> "none", ret |-> "none", before |-> FALSE, after |-> FALSE,
           slot |-> 0 - 1, pushed |-> 0, txn |-> NoTxn, had |-> 0,
           elapsed |-> 0, room |-> TRUE, retry |-> FALSE]
NoRun == [evs |-> <<>>, clean |-> FALSE, out |-> 0]
NoPending == [set |-> FALSE, self |-> new_builder(0)]

BundleInit ==
    /\ tsc = 0
    /\ builder = new_builder(0)
    /\ outq = <<>>
    /\ bcall = NoCall
    /\ emitted = <<>>
    /\ run = NoRun
    /\ pending = NoPending
    /\ nadds = 0
    /\ nflushes = 0
    /\ nticks = 0

\* the bundles a call appended to the queue
NewBundles(ring) == SubSeq(ring, Len(outq) + 1, Len(ring))

\* a call of add with the next event
AddCall ==
    /\ nadds < MaxAdds
    /\ bcall.ret # "panic"
    /\ LET txn == nadds + 1
           r == add(builder, txn, outq, tsc)
           fresh == builder.count = 0
           clean == IF fresh THEN Len(outq) < OutCap
                    ELSE run.clean /\ ~should_flush_timeout(builder, tsc)
       IN  /\ builder' = r.self
           /\ outq' = r.ring
           /\ emitted' = emitted \o NewBundles(r.ring)
           /\ bcall' = [op |-> "add", ret |-> r.ret, before |-> r.before,
                        after |-> r.after, slot |-> r.slot,
                        pushed |-> r.pushed, txn |-> txn,
                        had |-> builder.count,
                        elapsed |-> tsc - builder.start_tsc,
                        room |-> Len(outq) < OutCap, retry |-> pending.set]
           /\ run' = IF ~clean THEN NoRun
                     ELSE [evs |-> IF fresh THEN <<txn>>
                                   ELSE Append(run.evs, txn),
                           clean |-> TRUE,
                           out |-> IF fresh THEN r.pushed
                                   ELSE run.out + r.pushed]
           /\ pending' = IF r.self = builder THEN pending ELSE NoPending
    /\ nadds' = nadds + 1
    /\ UNCHANGED <<tsc, nflushes, nticks>>
    /\ UNCHANGED notBundleVars

\* what a call of flush or of force_flush leaves behind
Flushed(op, r) ==
    /\ nflushes < MaxFlushes
    /\ bcall.ret # "panic"
    /\ builder' = r.self
    /\ outq' = r.ring
    /\ emitted' = emitted \o NewBundles(r.ring)
    /\ bcall' = [op |-> op, ret |-> IF r.ok THEN "Ok" ELSE "BundleFull",
                 before |-> FALSE, after |-> FALSE, slot |-> 0 - 1,
                 pushed |-> r.pushed, txn |-> NoTxn, had |-> builder.count,
                 elapsed |-> tsc - builder.start_tsc,
                 room |-> Len(outq) < OutCap, retry |-> pending.set]
    /\ run' = NoRun
    /\ pending' = IF ~r.ok THEN [set |-> TRUE, self |-> builder]
                  ELSE IF r.pushed > 0 THEN NoPending ELSE pending
    /\ nflushes' = nflushes + 1
    /\ UNCHANGED <<tsc, nadds, nticks>>
    /\ UNCHANGED notBundleVars

FlushCall == Flushed("flush", flush(builder, outq, tsc))

ForceFlushCall == Flushed("force_flush", force_flush(builder, outq, tsc))

\* the consumer of the output queue takes the oldest bundle
OutPop ==
    /\ outq # <<>>
    /\ outq' = Tail(outq)
    /\ UNCHANGED <<builder, tsc, bcall, emitted, run, pending, nadds,
                   nflushes, nticks>>
    /\ UNCHANGED notBundleVars

\* time passes between two calls
Tick(d) ==
    /\ nticks < MaxTicks
    /\ tsc' = tsc + d
    /\ nticks' = nticks + 1
    /\ UNCHANGED <<builder, outq, bcall, emitted, run, pending, nadds,
                   nflushes>>
    /\ UNCHANGED notBundleVars

BundleNext ==
    \/ AddCall
    \/ FlushCall
    \/ ForceFlushCall
    \/ OutPop
    \/ \E d \in TickSteps : Tick(d)

(***************************************************************************)
(* Backoff (src/src/backoff.rs).  snooze is followed through its branch,   *)
(* the iterations of its spin loop and the update of step.                 *)
(***************************************************************************)
SPIN_LIMIT == 6
YIELD_LIMIT == 10
\* Duration::from_micros(100)
SLEEP_MICROS == 100

U32_MAX == Pow2(StepBits) - 1

saturating_add(a, b) == IF a + b > U32_MAX THEN U32_MAX ELSE a + b

Min(a, b) == IF a <= b THEN a ELSE b

\* seeded fault: the step is not capped
NextStepMutNoCap(s) == saturating_add(s, 1)

\* snooze, the step after a call
NextStep(s) == Min(saturating_add(s, 1), YIELD_LIMIT + 1)

\* Backoff::is_spinning
is_spinning(s) == s <= SPIN_LIMIT

SnzIdle == [pc |-> "idle", left |-> 0]
DidNothing == [k |-> 0, kind |-> "none", pauses |-> 0, micros |-> 0]

\* Backoff::new
BackoffInit ==
    /\ step = 0
    /\ snz = SnzIdle
    /\ did = DidNothing
    /\ since = 0
    /\ spinning = [asked |-> FALSE, value |-> FALSE]
    /\ bop = "new"
    /\ nsnoozes = 0

\* snooze is called and takes one of its three branches
SnoozeCall ==
    /\ snz.pc = "idle"
    /\ nsnoozes < MaxSnoozes
    /\ snz' = IF step <= SPIN_LIMIT
              THEN [pc |-> "spin", left |-> Pow2(step)]
              ELSE IF step <= YIELD_LIMIT
              THEN [pc |-> "yield", left |-> 0]
              ELSE [pc |-> "sleep", left |-> 0]
    /\ did' = [DidNothing EXCEPT !.k = since]
    /\ since' = since + 1
    /\ nsnoozes' = nsnoozes + 1
    /\ bop' = "snooze"
    /\ UNCHANGED <<step, spinning>>
    /\ UNCHANGED notBackoffVars

\* one iteration of for _ in 0..(1 << step) { spin_loop() }
SpinLoop ==
    /\ snz.pc = "spin"
    /\ snz.left > 0
    /\ snz' = [snz EXCEPT !.left = snz.left - 1]
    /\ did' = [did EXCEPT !.kind = "spin", !.pauses = did.pauses + 1]
    /\ UNCHANGED <<step, since, spinning, bop, nsnoozes>>
    /\ UNCHANGED notBackoffVars

\* the spin loop ends
SpinDone ==
    /\ snz.pc = "spin"
    /\ snz.left = 0
    /\ snz' = [snz EXCEPT !.pc = "bump"]
    /\ UNCHANGED <<step, did, since, spinning, bop, nsnoozes>>
    /\ UNCHANGED notBackoffVars

\* thread::yield_now()
YieldNow ==
    /\ snz.pc = "yield"
    /\ snz' = [snz EXCEPT !.pc = "bump"]
    /\ did' = [did EXCEPT !.kind = "yield"]
    /\ UNCHANGED <<step, since, spinning, bop, nsnoozes>>
    /\ UNCHANGED notBackoffVars

\* thread::sleep(Duration::from_micros(100))
Sleep ==
    /\ snz.pc = "sleep"
    /\ snz' = [snz EXCEPT !.pc = "bump"]
    /\ did' = [did EXCEPT !.kind = "sleep", !.micros = SLEEP_MICROS]
    /\ UNCHANGED <<step, since, spinning, bop, nsnoozes>>
    /\ UNCHANGED notBackoffVars

\* self.step = self.step.saturating_add(1).min(YIELD_LIMIT + 1), and return
Bump ==
    /\ snz.pc = "bump"
    /\ step' = NextStep(step)
    /\ snz' = SnzIdle
    /\ UNCHANGED <<did, since, spinning, bop, nsnoozes>>
    /\ UNCHANGED notBackoffVars

\* Backoff::reset
ResetCall ==
    /\ snz.pc = "idle"
    /\ bop # "reset"
    /\ step' = 0
    /\ since' = 0
    /\ bop' = "reset"
    /\ UNCHANGED <<snz, did, spinning, nsnoozes>>
    /\ UNCHANGED notBackoffVars

\* Backoff::is_spinning
IsSpinningCall ==
    /\ snz.pc = "idle"
    /\ bop # "is_spinning"
    /\ spinning' = [asked |-> TRUE, value |-> is_spinning(step)]
    /\ bop' = "is_spinning"
    /\ UNCHANGED <<step, snz, did, since, nsnoozes>>
    /\ UNCHANGED notBackoffVars

BackoffNext ==
    \/ SnoozeCall
    \/ SpinLoop
    \/ SpinDone
    \/ YieldNow
    \/ Sleep
    \/ Bump
    \/ ResetCall
    \/ IsSpinningCall

(***************************************************************************)
(* LatencyHistogram (src/src/histogram.rs).  record takes &self: several   *)
(* threads run it at once, one action per atomic operation.  The atomic    *)
(* read-modify-writes act on the current value of their counter; a Relaxed *)
(* load of min or max may return any value the counter has held that is no *)
(* older than the value the thread read before.                            *)
(***************************************************************************)
NUM_BUCKETS == 13

U64Mod == Pow2(U64Bits)
U64_MAX == U64Mod - 1

Recorders == 1 .. NumRecorders
\* the latencies passed to record: both ends of the word, and two between
Samples == {0, 150, 750000, U64_MAX}

\* LatencyHistogram::bucket_index
bucket_index(latency_ns) ==
    IF latency_ns <= 99 THEN 0
    ELSE IF latency_ns <= 199 THEN 1
    ELSE IF latency_ns <= 499 THEN 2
    ELSE IF latency_ns <= 999 THEN 3
    ELSE IF latency_ns <= 1999 THEN 4
    ELSE IF latency_ns <= 4999 THEN 5
    ELSE IF latency_ns <= 9999 THEN 6
    ELSE IF latency_ns <= 19999 THEN 7
    ELSE IF latency_ns <= 49999 THEN 8
    ELSE IF latency_ns <= 99999 THEN 9
    ELSE IF latency_ns <= 199999 THEN 10
    ELSE IF latency_ns <= 499999 THEN 11
    ELSE 12

\* seeded fault: the counter is stored, not added to
fetch_addMutStore(x, n) == n % U64Mod

\* AtomicU64::fetch_add: the value left in the counter (wrapping)
fetch_add(x, n) == (x + n) % U64Mod

\* seeded fault: the loop is left after a failed CAS (Err(_) => break)
RetryAfterErrMutBreak(again, out) == out

\* Err(actual) => current = actual: the loop condition is evaluated again
RetryAfterErr(again, out) == again

\* while latency_ns < current_min
BelowMin(latency_ns, current_min) == latency_ns < current_min

\* seeded fault: the condition of the min loop copied to the max loop
AboveMaxMutBelow(latency_ns, current_max) == latency_ns < current_max

\* while latency_ns > current_max
AboveMax(latency_ns, current_max) == latency_ns > current_max

HtIdle == [pc |-> "idle", latency_ns |-> 0, bucket |-> 0, current_min |-> 0,
           current_max |-> 0, lost |-> FALSE]

\* LatencyHistogram::new
HistInit ==
    /\ buckets = [b \in 0 .. NUM_BUCKETS - 1 |-> 0]
    /\ total_samples = 0
    /\ total_latency_ns = 0
    /\ min_latency_ns = U64_MAX
    /\ max_latency_ns = 0
    /\ min_mo = {U64_MAX}
    /\ max_mo = {0}
    /\ ht = [t \in Recorders |-> HtIdle]
    /\ seen = {}
    /\ sum_ns = 0
    /\ nrecords = [t \in Recorders |-> 0]

\* record(latency_ns) is called: let bucket = Self::bucket_index(latency_ns)
RecordCall(t, latency_ns) ==
    /\ ht[t].pc = "idle"
    /\ nrecords[t] < MaxRecords
    /\ ht' = [ht EXCEPT ![t] = [HtIdle EXCEPT !.pc = "bucket",
                                             !.latency_ns = latency_ns,
                                             !.bucket = bucket_index(latency_ns)]]
    /\ seen' = seen \cup {latency_ns}
    /\ sum_ns' = sum_ns + latency_ns
    /\ nrecords' = [nrecords EXCEPT ![t] = @ + 1]
    /\ UNCHANGED <<buckets, total_samples, total_latency_ns, min_latency_ns,
                   max_latency_ns, min_mo, max_mo>>
    /\ UNCHANGED notHistVars

\* self.buckets[bucket].value.fetch_add(1, Relaxed)
AddBucket(t) ==
    /\ ht[t].pc = "bucket"
    /\ buckets' = [buckets EXCEPT ![ht[t].bucket] = fetch_add(@, 1)]
    /\ ht' = [ht EXCEPT ![t].pc = "samples"]
    /\ UNCHANGED <<total_samples, total_latency_ns, min_latency_ns,
                   max_latency_ns, seen, sum_ns, nrecords, min_mo,
                   max_mo>>
    /\ UNCHANGED notHistVars

\* self.total_samples.value.fetch_add(1, Relaxed)
AddSamples(t) ==
    /\ ht[t].pc = "samples"
    /\ total_samples' = fetch_add(total_samples, 1)
    /\ ht' = [ht EXCEPT ![t].pc = "latency"]
    /\ UNCHANGED <<buckets, total_latency_ns, min_latency_ns, max_latency_ns,
                   seen, sum_ns, nrecords, min_mo,
                   max_mo>>
    /\ UNCHANGED notHistVars

\* self.total_latency_ns.value.fetch_add(latency_ns, Relaxed)
AddLatency(t) ==
    /\ ht[t].pc = "latency"
    /\ total_latency_ns' = fetch_add(total_latency_ns, ht[t].latency_ns)
    /\ ht' = [ht EXCEPT ![t].pc = "min_load"]
    /\ UNCHANGED <<buckets, total_samples, min_latency_ns, max_latency_ns,
                   seen, sum_ns, nrecords, min_mo,
                   max_mo>>
    /\ UNCHANGED notHistVars

\* let mut current_min = self.min_latency_ns.value.load(Relaxed)
MinLoad(t) ==
    /\ ht[t].pc = "min_load"
    /\ \E v \in min_mo :
          ht' = [ht EXCEPT ![t].pc = "min_loop", ![t].current_min = v]
    /\ UNCHANGED <<buckets, total_samples, total_latency_ns, min_latency_ns,
                   max_latency_ns, seen, sum_ns, nrecords, min_mo,
                   max_mo>>
    /\ UNCHANGED notHistVars

\* the min loop ends: latency_ns < current_min is false
MinExit(t) ==
    /\ ht[t].pc = "min_loop"
    /\ ~BelowMin(ht[t].latency_ns, ht[t].current_min)
    /\ ht' = [ht EXCEPT ![t].pc = "max_load"]
    /\ UNCHANGED <<buckets, total_samples, total_latency_ns, min_latency_ns,
                   max_latency_ns, seen, sum_ns, nrecords, min_mo,
                   max_mo>>
    /\ UNCHANGED notHistVars

\* compare_exchange_weak(current_min, latency_ns, ..) => Ok(_) => break
MinCasOk(t) ==
    /\ ht[t].pc = "min_loop"
    /\ BelowMin(ht[t].latency_ns, ht[t].current_min)
    /\ CasMatches(min_latency_ns, ht[t].current_min)
    /\ min_latency_ns' = ht[t].latency_ns
    /\ min_mo' = min_mo \cup {ht[t].latency_ns}
    /\ ht' = [ht EXCEPT ![t].pc = "max_load"]
    /\ UNCHANGED <<buckets, total_samples, total_latency_ns, max_latency_ns,
                   seen, sum_ns, nrecords, max_mo>>
    /\ UNCHANGED notHistVars

\* compare_exchange_weak fails, because another thread stored a minimum or
\* spuriously: Err(actual) => current_min = actual
MinCasErr(t) ==
    /\ ht[t].pc = "min_loop"
    /\ BelowMin(ht[t].latency_ns, ht[t].current_min)
    /\ \E actual \in {v \in min_mo : v <= ht[t].current_min} :
          ht' = [ht EXCEPT
                   ![t].pc = RetryAfterErr("min_loop", "max_load"),
                   ![t].current_min = actual,
                   ![t].lost = @ \/ (min_latency_ns # ht[t].current_min
                                     /\ min_latency_ns > ht[t].latency_ns)]
    /\ UNCHANGED <<buckets, total_samples, total_latency_ns, min_latency_ns,
                   max_latency_ns, seen, sum_ns, nrecords, min_mo,
                   max_mo>>
    /\ UNCHANGED notHistVars

\* let mut current_max = self.max_latency_ns.value.load(Relaxed)
MaxLoad(t) ==
    /\ ht[t].pc = "max_load"
    /\ \E v \in max_mo :
          ht' = [ht EXCEPT ![t].pc = "max_loop", ![t].current_max = v]
    /\ UNCHANGED <<buckets, total_samples, total_latency_ns, min_latency_ns,
                   max_latency_ns, seen, sum_ns, nrecords, min_mo,
                   max_mo>>
    /\ UNCHANGED notHistVars

\* the max loop ends: latency_ns > current_max is false; record returns
MaxExit(t) ==
    /\ ht[t].pc = "max_loop"
    /\ ~AboveMax(ht[t].latency_ns, ht[t].current_max)
    /\ ht' = [ht EXCEPT ![t].pc = "idle"]
    /\ UNCHANGED <<buckets, total_samples, total_latency_ns, min_latency_ns,
                   max_latency_ns, seen, sum_ns, nrecords, min_mo,
                   max_mo>>
    /\ UNCHANGED notHistVars

\* compare_exchange_weak(current_max, latency_ns, ..) => Ok(_) => break
MaxCasOk(t) ==
    /\ ht[t].pc = "max_loop"
    /\ AboveMax(ht[t].latency_ns, ht[t].current_max)
    /\ CasMatches(max_latency_ns, ht[t].current_max)
    /\ max_latency_ns' = ht[t].latency_ns
    /\ max_mo' = max_mo \cup {ht[t].latency_ns}
    /\ ht' = [ht EXCEPT ![t].pc = "idle"]
    /\ UNCHANGED <<buckets, total_samples, total_latency_ns, min_latency_ns,
                   seen, sum_ns, nrecords, min_mo>>
    /\ UNCHANGED notHistVars

\* compare_exchange_weak fails: Err(actual) => current_max = actual
MaxCasErr(t) ==
    /\ ht[t].pc = "max_loop"
    /\ AboveMax(ht[t].latency_ns, ht[t].current_max)
    /\ \E actual \in {v \in max_mo : v >= ht[t].current_max} :
          ht' = [ht EXCEPT
                   ![t].pc = RetryAfterErr("max_loop", "idle"),
                   ![t].current_max = actual,
                   ![t].lost = @ \/ (max_latency_ns # ht[t].current_max
                                     /\ max_latency_ns < ht[t].latency_ns)]
    /\ UNCHANGED <<buckets, total_samples, total_latency_ns, min_latency_ns,
                   max_latency_ns, seen, sum_ns, nrecords, min_mo,
                   max_mo>>
    /\ UNCHANGED notHistVars

RecordStep(t) ==
    \/ \E latency_ns \in Samples : RecordCall(t, latency_ns)
    \/ AddBucket(t)
    \/ AddSamples(t)
    \/ AddLatency(t)
    \/ MinLoad(t)
    \/ MinExit(t)
    \/ MinCasOk(t)
    \/ MinCasErr(t)
    \/ MaxLoad(t)
    \/ MaxExit(t)
    \/ MaxCasOk(t)
    \/ MaxCasErr(t)

HistNext == \E t \in Recorders : RecordStep(t)

(***************************************************************************)
(* LatencyHistogram::percentile (src/src/histogram.rs).  The argument p is  *)
(* the fraction num / PctDen; the products total * p of the model are       *)
(* exact.                                                                   *)
(***************************************************************************)
\* the values of p: 0 / PctDen, 1 / PctDen, ..., PctDen / PctDen
PctNums == 0 .. PctDen

\* (total as f64 * p) as u64: the cast truncates toward zero
target_count(total, num) == (total * num) \div PctDen

\* if cumulative >= target_count
ReachesTarget(cumulative, target) == cumulative >= target

\* the midpoint returned for bucket i (match i { 0 => 50, ..., _ => 750_000 })
Midpoint(i) ==
    CASE i = 0 -> 50
      [] i = 1 -> 150
      [] i = 2 -> 350
      [] i = 3 -> 750
      [] i = 4 -> 1500
      [] i = 5 -> 3500
      [] i = 6 -> 7500
      [] i = 7 -> 15000
      [] i = 8 -> 35000
      [] i = 9 -> 75000
      [] i = 10 -> 150000
      [] i = 11 -> 350000
      [] OTHER -> 750000

\* for (i, bucket) in self.buckets.iter().enumerate(): the walk from bucket
\* i on with the count accumulated so far; 750_000 after the last bucket
RECURSIVE PercentileWalk(_, _, _, _)
PercentileWalk(bs, i, cumulative, target) ==
    IF i >= NUM_BUCKETS THEN 750000
    ELSE LET c == (cumulative + bs[i]) % U64Mod
         IN  IF ReachesTarget(c, target) THEN Midpoint(i)
             ELSE PercentileWalk(bs, i + 1, c, target)

\* percentile(p) on the counters bs and total
percentile(bs, total, num) ==
    IF total = 0 THEN 0
    ELSE PercentileWalk(bs, 0, 0, target_count(total, num))

NoQuery == [called |-> FALSE, num |-> 0, ret |-> 0, total |-> 0,
            bs |-> [b \in 0 .. NUM_BUCKETS - 1 |-> 0]]

PctInit == pq = NoQuery

\* percentile(num / PctDen) is called while no record call is in flight
PercentileCall(num) ==
    /\ \A t \in Recorders : ht[t].pc = "idle"
    /\ pq' = [called |-> TRUE, num |-> num,
              ret |-> percentile(buckets, total_samples, num),
              total |-> total_samples, bs |-> buckets]
    /\ UNCHANGED notPctVars

\* the record calls are issued one after the other, percentile between them
PctNext ==
    \/ \E t \in Recorders :
          /\ \A u \in Recorders \ {t} : ht[u].pc = "idle"
          /\ RecordStep(t)
    \/ \E num \in PctNums : PercentileCall(num)

(***************************************************************************)
(* Transaction (src/src/types.rs): the validating constructor and the      *)
(* 32-byte serialization.  The record is repr(C): id at bytes 0 .. 7,      *)
(* price at 8 .. 15, size at 16 .. 19, side at 20, _padding1 at 21 .. 23,  *)
(* ingress_ts_ns at 24 .. 31, each integer in the byte order of the        *)
(* machine (little-endian on the x86-64 and ARM64 targets).                *)
(***************************************************************************)
\* the field values passed to the constructors
TxnIds == {0, 258}
TxnPrices == {0 - 1000, 0 - 1, 0, 1, 1000000}
TxnSizes == {0, 1, 300}
TxnSides == {0, 1, 2, 255}
TxnStamps == {0, 1234567890}

\* Self { id, price, size, side, _padding1: [0; 3], ingress_ts_ns }
TransactionOf(id, price, size, side, ingress_ts_ns) ==
    [id |-> id, price |-> price, size |-> size, side |-> side,
     padding1 |-> <<0, 0, 0>>, ingress_ts_ns |-> ingress_ts_ns]

NoTransaction == TransactionOf(0, 0, 0, 0, 0)

\* seeded fault: the price is validated before the side
newMutPriceFirst(id, price, size, side, ingress_ts_ns) ==
    IF price <= 0
    THEN [kind |-> "NegativePrice", arg |-> price, val |-> NoTransaction]
    ELSE IF side > 1
    THEN [kind |-> "InvalidSide", arg |-> side, val |-> NoTransaction]
    ELSE IF size = 0
    THEN [kind |-> "ZeroSize", arg |-> 0, val |-> NoTransaction]
    ELSE [kind |-> "Ok", arg |-> 0,
          val |-> TransactionOf(id, price, size, side, ingress_ts_ns)]

\* Transaction::new: Ok(Self) or Err(TransactionError), arg the payload of
\* the error
new(id, price, size, side, ingress_ts_ns) ==
    IF side > 1
    THEN [kind |-> "InvalidSide", arg |-> side, val |-> NoTransaction]
    ELSE IF price <= 0
    THEN [kind |-> "NegativePrice", arg |-> price, val |-> NoTransaction]
    ELSE IF size = 0
    THEN [kind |-> "ZeroSize", arg |-> 0, val |-> NoTransaction]
    ELSE [kind |-> "Ok", arg |-> 0,
          val |-> TransactionOf(id, price, size, side, ingress_ts_ns)]

\* Transaction::new_unchecked: the debug_assert!s are compiled in only when
\* debug_assertions is set
new_unchecked(id, price, size, side, ingress_ts_ns, debug_assertions) ==
    IF debug_assertions /\ ~(side <= 1 /\ price > 0 /\ size > 0)
    THEN [kind |-> "panic", arg |-> 0, val |-> NoTransaction]
    ELSE [kind |-> "Ok", arg |-> 0,
          val |-> TransactionOf(id, price, size, side, ingress_ts_ns)]

\* the n bytes of the unsigned integer v in memory, low byte first
RECURSIVE ToLE(_, _)
ToLE(v, n) ==
    IF n = 0 THEN <<>> ELSE <<v % 256>> \o ToLE(v \div 256, n - 1)

\* the bytes of the complement: 255 - b for every byte b
Complement(bytes) == [k \in DOMAIN bytes |-> 255 - bytes[k]]

\* the n bytes of the signed integer v (two's complement): for v < 0 the
\* complement of the bytes of -v - 1
ToLESigned(v, n) ==
    IF v >= 0 THEN ToLE(v, n) ELSE Complement(ToLE(0 - v - 1, n))

\* the unsigned integer held by the bytes, low byte first
RECURSIVE FromLE(_)
FromLE(bytes) ==
    IF bytes = <<>> THEN 0 ELSE Head(bytes) + 256 * FromLE(Tail(bytes))

\* the signed integer held by the bytes: negative iff the top bit is set
FromLESigned(bytes) ==
    IF bytes[Len(bytes)] >= 128 THEN 0 - FromLE(Complement(bytes)) - 1
    ELSE FromLE(bytes)

\* seeded fault: only 24 of the 32 bytes are copied, the rest stays 0u8
to_bytesMutShort(self) ==
    ToLE(self.id, 8) \o ToLESigned(self.price, 8) \o ToLE(self.size, 4)
        \o <<self.side>> \o self.padding1 \o ToLE(0, 8)

\* to_bytes: the 32 bytes of the record, copied as they lie in memory
to_bytes(self) ==
    ToLE(self.id, 8) \o ToLESigned(self.price, 8) \o ToLE(self.size, 4)
        \o <<self.side>> \o self.padding1 \o ToLE(self.ingress_ts_ns, 8)

\* from_bytes: the 32 bytes copied over a Transaction
from_bytes(bytes) ==
    [id |-> FromLE(SubSeq(bytes, 1, 8)),
     price |-> FromLESigned(SubSeq(bytes, 9, 16)),
     size |-> FromLE(SubSeq(bytes, 17, 20)),
     side |-> bytes[21],
     padding1 |-> SubSeq(bytes, 22, 24),
     ingress_ts_ns |-> FromLE(SubSeq(bytes, 25, 32))]

NoTCall == [ctor |-> "none", op |-> "none", id |-> 0, price |-> 0, size |-> 0,
            side |-> 0, ingress_ts_ns |-> 0,
            ret |-> [kind |-> "none", arg |-> 0, val |-> NoTransaction],
            bytes |-> <<>>, back |-> NoTransaction]

TypesInit == tcall = NoTCall

\* Transaction::new(id, price, size, side, ingress_ts_ns) is called
NewCall(id, price, size, side, ingress_ts_ns) ==
    /\ tcall' = [NoTCall EXCEPT
                   !.ctor = "new", !.op = "new", !.id = id, !.price = price,
                   !.size = size, !.side = side,
                   !.ingress_ts_ns = ingress_ts_ns,
                   !.ret = new(id, price, size, side, ingress_ts_ns)]
    /\ UNCHANGED notTypesVars

\* Transaction::new_unchecked(id, price, size, side, ingress_ts_ns) is called
NewUncheckedCall(id, price, size, side, ingress_ts_ns, debug_assertions) ==
    /\ tcall' = [NoTCall EXCEPT
                   !.ctor = "new_unchecked", !.op = "new_unchecked",
                   !.id = id, !.price = price, !.size = size, !.side = side,
                   !.ingress_ts_ns = ingress_ts_ns,
                   !.ret = new_unchecked(id, price, size, side, ingress_ts_ns,
                                         debug_assertions)]
    /\ UNCHANGED notTypesVars

\* to_bytes is called on the record the constructor returned
ToBytesCall ==
    /\ tcall.op \in {"new", "new_unchecked"}
    /\ tcall.ret.kind = "Ok"
    /\ tcall' = [tcall EXCEPT !.op = "to_bytes",
                              !.bytes = to_bytes(tcall.ret.val)]
    /\ UNCHANGED notTypesVars

\* from_bytes is called on the bytes to_bytes returned
FromBytesCall ==
    /\ tcall.op = "to_bytes"
    /\ tcall' = [tcall EXCEPT !.op = "from_bytes",
                              !.back = from_bytes(tcall.bytes)]
    /\ UNCHANGED notTypesVars

TypesNext ==
    \/ \E id \in TxnIds, price \in TxnPrices, size \in TxnSizes,
          side \in TxnSides, ingress_ts_ns \in TxnStamps :
          \/ NewCall(id, price, size, side, ingress_ts_ns)
          \/ \E debug_assertions \in BOOLEAN :
                NewUncheckedCall(id, price, size, side, ingress_ts_ns,
                                 debug_assertions)
    \/ ToBytesCall
    \/ FromBytesCall

(***************************************************************************)
(* The pipeline runtime (src/src/main.rs): the ingress, orderbook, bundle   *)
(* and output workers and the main thread, which stores the shutdown flag,  *)
(* runs drain_pipeline and then joins the workers.  The three queues are    *)
(* RingBuffers; a push or a pop is two steps, the loads of head and tail    *)
(* and then the slot access with the store of the index, so that calls of   *)
(* several threads on one queue interleave as the code allows.  An event is *)
(* its id, a bundle the sequence of the ids in its count active slots.  The *)
(* clock is not modelled: should_flush_timeout may return either value on a *)
(* non-empty builder.  The order book of a worker is private to it and is   *)
(* reduced to the result of the update and the number of events applied to  *)
(* it; so is that of drain_pipeline.  The monitor thread only reads the     *)
(* counters and is left out.  A step that touches nothing shared is taken   *)
(* with the step before it: backoff.snooze() (spins, yield_now or a sleep   *)
(* of 100 us, always returns) with the poll that found the queue empty, a   *)
(* force_flush of an empty builder with the step that reaches it.  The      *)
(* flag is stored once and by the main thread only: a worker that is at     *)
(* the head of its loop when the flag is stored, or reaches it later, can   *)
(* only load true, and its exit from the loop is taken with that step.  A push or a pop that is alone on its side of *)
(* a queue takes effect at one instant (SpecRing), so its loads can be      *)
(* taken as late as its store: while a thread is between the two, only a    *)
(* thread about to enter the same side of the same queue is scheduled.      *)
(* Once two threads are inside the same side of one queue the contract of   *)
(* the ring is broken and the run is followed no further.                   *)
(***************************************************************************)
PipeThreads == {"ingress", "orderbook", "bundle", "output", "main"}
Workers == {"ingress", "orderbook", "bundle", "output"}
\* the threads that own a BundleBuilder: bundle_worker and drain_pipeline
Builders == {"bundle", "main"}

\* the owners of an OrderBook: orderbook_worker (let book = OrderBook::new())
\* and drain_pipeline (let book = OrderBook::new())
Books == {"orderbook", "main"}

\* Q1 = ingress_ring, Q2 = bundle_ring, Q3 = output_ring
Queues == 1 .. 3

\* RingBuffer<Transaction, 4096> for Q1 and Q2, RingBuffer<Bundle, 1024> for Q3
QueueCap(q) == IF q = 3 THEN Pow2(LogBundleCap) ELSE N

\* content of a slot never written
NoEvent == 0 - 1

\* seeded fault: the queue is taken as full one element late
QIsFullMutLate(h, t, cap) == wrapping_sub(h, t) > cap

\* push: head.wrapping_sub(tail) >= N as u64
QIsFull(h, t, cap) == wrapping_sub(h, t) >= cap

\* the loads of push on queue q find it full
PushFindsFull(q) == QIsFull(qhead[q], qtail[q], QueueCap(q))

\* the loads of pop on queue q find it empty: tail == head
PopFindsEmpty(q) == qtail[q] = qhead[q]

\* idx = (head as usize) & (N - 1)
QIndex(q, i) == i % QueueCap(q)

\* ptr::write(slot, value); head.store(head.wrapping_add(1), Release), with
\* the head loaded at the start of the push
StoredSlots(q, h, value) ==
    [qslots EXCEPT ![q] = [@ EXCEPT ![QIndex(q, h)] = value]]

\* an event held by a thread: its id and, as history, the rank of the pop
\* that returned it
NoLoc == [idx |-> 0, txn |-> NoEvent, rank |-> 0, prev_len |-> 0]

\* where worker w continues when it leaves its loop with its builder (if it
\* has one) holding len events: the orderbook and ingress workers return,
\* the bundle worker flushes what is left, the output worker drains Q3
AfterLoop(w, len) ==
    CASE w = "ingress" -> "returned"
      [] w = "orderbook" -> "returned"
      [] w = "bundle" -> IF len = 0 THEN "returned" ELSE "final1"
      [] w = "output" -> "drainb"

\* where worker w continues after an iteration of its loop that leaves len
\* events in its builder: while !shutdown.load(Relaxed)
Again(w, len) == IF ~shutdown THEN "top" ELSE AfterLoop(w, len)

NoStats == [ingress_generated |-> 0, ingress_pushed |-> 0,
            ingress_dropped |-> 0, orderbook_processed |-> 0,
            orderbook_timeout |-> 0, bundle_flushed |-> 0,
            output_received |-> 0]

\* history: the pops of each queue and the pushes to Q2 and Q3 so far, the
\* pops of Q1 and the pushes to Q2 made by drain_pipeline, and the queue
\* whose push the last step found full (0: none)
NoHistory == [npop1 |-> 0, fwd |-> <<>>, npop2 |-> 0, emitted |-> <<>>,
              nemit3 |-> 0, npop3 |-> 0, dpop1 |-> 0, dfwd |-> 0, full |-> 0]

\* the history after a step that found no queue full
Quiet == [ph EXCEPT !.full = 0]

\* the ranks of the events of a bundle
RECURSIVE Ranks(_)
Ranks(bundle) ==
    IF bundle = <<>> THEN <<>>
    ELSE <<Head(bundle).rank>> \o Ranks(Tail(bundle))

\* a bundle was pushed to Q3 (history)
Emitted(bundle) ==
    [Quiet EXCEPT !.emitted = @ \o Ranks(bundle), !.nemit3 = @ + 1]

\* main: the rings, the Stats and the flag are created, the workers spawned
PipeInit ==
    /\ shutdown = FALSE
    /\ qhead = [q \in Queues |-> 0]
    /\ qtail = [q \in Queues |-> 0]
    /\ qslots = [q \in Queues |->
                   [i \in 0 .. QueueCap(q) - 1 |->
                      IF q = 3 THEN <<>> ELSE NoEvent]]
    /\ pc = [t \in PipeThreads |-> IF t = "main" THEN "run" ELSE "top"]
    /\ loc = [t \in PipeThreads |-> NoLoc]
    /\ bld = [t \in Builders |-> <<>>]
    /\ stats = NoStats
    /\ next_id = 0
    /\ book = [t \in Books |-> 0]
    /\ ph = NoHistory

\* thread t is between the loads and the store of a push on queue q
InPush(t, q) ==
    \/ q = 1 /\ t = "ingress" /\ pc[t] = "push"
    \/ q = 2 /\ t = "orderbook" /\ pc[t] = "push"
    \/ q = 2 /\ t = "main" /\ pc[t] = "d1_push"
    \/ q = 3 /\ t = "bundle"
             /\ pc[t] \in {"fb_push", "fa_push", "idle_push", "final1_push",
                            "final2_push"}
    \/ q = 3 /\ t = "main" /\ pc[t] \in {"fb_push", "fa_push", "d3_push"}

\* thread t is between the loads and the store of a pop on queue q
InPop(t, q) ==
    \/ q = 1 /\ t = "orderbook" /\ pc[t] = "pop"
    \/ q = 1 /\ t = "main" /\ pc[t] = "d1_pop"
    \/ q = 2 /\ t = "bundle" /\ pc[t] = "pop"
    \/ q = 2 /\ t = "main" /\ pc[t] = "d2_pop"
    \/ q = 3 /\ t = "output" /\ pc[t] \in {"pop", "drain_pop"}
    \/ q = 3 /\ t = "main" /\ pc[t] = "d4_pop"

\* two threads are inside push, or two inside pop, of one queue: the
\* contract of ring.rs ("Only one producer thread may call push", "Only one
\* consumer thread may call pop") is broken
Raced ==
    \E q \in Queues : \E t, u \in PipeThreads :
        /\ t # u
        /\ \/ InPush(t, q) /\ InPush(u, q)
           \/ InPop(t, q) /\ InPop(u, q)

\* the next step of thread t makes the loads of a push on queue q
AtPush(t, q) ==
    \/ q = 1 /\ t = "ingress" /\ pc[t] = "gen"
    \/ q = 2 /\ t = "orderbook" /\ pc[t] = "update"
    \/ q = 2 /\ t = "main" /\ pc[t] = "d1_fwd"
    \/ q = 3 /\ t = "bundle" /\ pc[t] \in {"add", "idle", "final1", "final2"}
    \/ q = 3 /\ t = "main" /\ pc[t] \in {"add", "d3"}

\* the next step of thread t makes the loads of a pop on queue q
AtPop(t, q) ==
    \/ q = 1 /\ t = "orderbook" /\ pc[t] = "popb"
    \/ q = 1 /\ t = "main" /\ pc[t] = "d1b"
    \/ q = 2 /\ t = "bundle" /\ pc[t] = "popb"
    \/ q = 2 /\ t = "main" /\ pc[t] = "d2b"
    \/ q = 3 /\ t = "output" /\ pc[t] \in {"popb", "drainb"}
    \/ q = 3 /\ t = "main" /\ pc[t] = "d4b"

\* thread t is scheduled: the contract of the rings is unbroken, and no
\* other thread is inside a push or a pop unless t is about to enter the
\* same one
Scheduled(t) ==
    /\ ~Raced
    /\ \A u \in PipeThreads \ {t} : \A q \in Queues :
          /\ InPush(u, q) => AtPush(t, q)
          /\ InPop(u, q) => AtPop(t, q)

\* stats.<counter>.fetch_add(n, Relaxed)
Counted(s, counter, n) == [s EXCEPT ![counter] = @ + n]

\* a push on queue q was rejected (history)
Rejected(q) == [ph EXCEPT !.full = q]

(***************************************************************************)
(* ingress_worker                                                          *)
(***************************************************************************)
\* while !shutdown.load(Relaxed)
IngressLoop ==
    /\ pc["ingress"] = "top"
    /\ Scheduled("ingress")
    /\ ~shutdown
    /\ stats.ingress_generated < MaxGenerated
    /\ pc' = [pc EXCEPT !["ingress"] = "gen"]
    /\ ph' = Quiet
    /\ UNCHANGED <<shutdown, qhead, qtail, qslots, loc, bld, stats, next_id,
                   book>>
    /\ UNCHANGED notPipeVars

\* the event is built, ingress_generated counted and ring.push entered: on
\* a full ring ingress_dropped is counted and the iteration ends
IngressGenerate ==
    /\ pc["ingress"] = "gen"
    /\ Scheduled("ingress")
    /\ IF PushFindsFull(1)
       THEN /\ stats' = Counted(Counted(stats, "ingress_generated", 1),
                                "ingress_dropped", 1)
            /\ ph' = Rejected(1)
            /\ pc' = [pc EXCEPT !["ingress"] = Again("ingress", 0)]
            /\ UNCHANGED loc
       ELSE /\ stats' = Counted(stats, "ingress_generated", 1)
            /\ loc' = [loc EXCEPT !["ingress"] =
                         [NoLoc EXCEPT !.idx = qhead[1], !.txn = next_id]]
            /\ pc' = [pc EXCEPT !["ingress"] = "push"]
            /\ ph' = Quiet
    /\ UNCHANGED <<shutdown, qhead, qtail, qslots, bld, next_id, book>>
    /\ UNCHANGED notPipeVars

\* the slot is written and head stored; Ok(_): ingress_pushed, next_id += 1
IngressPushEnd ==
    /\ pc["ingress"] = "push"
    /\ Scheduled("ingress")
    /\ qslots' = StoredSlots(1, loc["ingress"].idx, loc["ingress"].txn)
    /\ qhead' = [qhead EXCEPT ![1] = wrapping_add(loc["ingress"].idx, 1)]
    /\ stats' = Counted(stats, "ingress_pushed", 1)
    /\ next_id' = next_id + 1
    /\ loc' = [loc EXCEPT !["ingress"] = NoLoc]
    /\ pc' = [pc EXCEPT !["ingress"] = Again("ingress", 0)]
    /\ ph' = Quiet
    /\ UNCHANGED <<shutdown, qtail, bld, book>>
    /\ UNCHANGED notPipeVars

IngressNext == IngressLoop \/ IngressGenerate \/ IngressPushEnd

(***************************************************************************)
(* orderbook_worker                                                        *)
(***************************************************************************)
\* while !shutdown.load(Relaxed)
OrderbookLoop ==
    /\ pc["orderbook"] = "top"
    /\ Scheduled("orderbook")
    /\ ~shutdown
    /\ pc' = [pc EXCEPT !["orderbook"] = "popb"]
    /\ ph' = Quiet
    /\ UNCHANGED <<shutdown, qhead, qtail, qslots, loc, bld, stats, next_id,
                   book>>
    /\ UNCHANGED notPipeVars

\* input.pop() is entered: None => backoff.snooze(), and the loop goes on
OrderbookPopBegin ==
    /\ pc["orderbook"] = "popb"
    /\ Scheduled("orderbook")
    /\ IF PopFindsEmpty(1)
       THEN /\ pc' = [pc EXCEPT !["orderbook"] = Again("orderbook", 0)]
            /\ UNCHANGED loc
       ELSE /\ loc' = [loc EXCEPT !["orderbook"] =
                         [NoLoc EXCEPT !.idx = qtail[1]]]
            /\ pc' = [pc EXCEPT !["orderbook"] = "pop"]
    /\ ph' = Quiet
    /\ UNCHANGED <<shutdown, qhead, qtail, qslots, bld, stats, next_id, book>>
    /\ UNCHANGED notPipeVars

\* the slot is read and tail stored: Some(txn)
OrderbookPopEnd ==
    /\ pc["orderbook"] = "pop"
    /\ Scheduled("orderbook")
    /\ loc' = [loc EXCEPT
                 !["orderbook"].txn = qslots[1][QIndex(1, loc["orderbook"].idx)],
                 !["orderbook"].rank = ph.npop1 + 1]
    /\ ph' = [Quiet EXCEPT !.npop1 = @ + 1]
    /\ qtail' = [qtail EXCEPT ![1] = wrapping_add(loc["orderbook"].idx, 1)]
    /\ pc' = [pc EXCEPT !["orderbook"] = "update"]
    /\ UNCHANGED <<shutdown, qhead, qslots, bld, stats, next_id, book>>
    /\ UNCHANGED notPipeVars

\* seeded fault: the event is counted as processed and forwarded whatever
\* the result of the update
OrderbookUpdateMutForwardsErr(result) ==
    /\ pc["orderbook"] = "update"
    /\ Scheduled("orderbook")
    /\ book' = IF result = "Ok" THEN [book EXCEPT !["orderbook"] = @ + 1]
               ELSE book
    /\ IF result \in {"Ok", "Err"}
       THEN /\ stats' = Counted(stats, "orderbook_processed", 1)
            /\ IF PushFindsFull(2)
               THEN /\ ph' = Rejected(2)
                    /\ loc' = [loc EXCEPT !["orderbook"] = NoLoc]
                    /\ pc' = [pc EXCEPT !["orderbook"] = Again("orderbook", 0)]
               ELSE /\ loc' = [loc EXCEPT !["orderbook"].idx = qhead[2]]
                    /\ pc' = [pc EXCEPT !["orderbook"] = "push"]
                    /\ ph' = Quiet
       ELSE /\ stats' = Counted(stats, "orderbook_timeout", 1)
            /\ loc' = [loc EXCEPT !["orderbook"] = NoLoc]
            /\ pc' = [pc EXCEPT !["orderbook"] = Again("orderbook", 0)]
            /\ ph' = Quiet
    /\ UNCHANGED <<shutdown, qhead, qtail, qslots, bld, next_id>>
    /\ UNCHANGED notPipeVars

\* book.update_bid / update_ask applies the event unless it returns Err;
\* match result: Ok(_) counts orderbook_processed and enters output.push
\* (drop on full), Err(_) counts orderbook_timeout
OrderbookUpdate(result) ==
    /\ pc["orderbook"] = "update"
    /\ Scheduled("orderbook")
    /\ book' = IF result = "Ok" THEN [book EXCEPT !["orderbook"] = @ + 1]
               ELSE book
    /\ IF result = "Ok"
       THEN /\ stats' = Counted(stats, "orderbook_processed", 1)
            /\ IF PushFindsFull(2)
               THEN /\ ph' = Rejected(2)
                    /\ loc' = [loc EXCEPT !["orderbook"] = NoLoc]
                    /\ pc' = [pc EXCEPT !["orderbook"] = Again("orderbook", 0)]
               ELSE /\ loc' = [loc EXCEPT !["orderbook"].idx = qhead[2]]
                    /\ pc' = [pc EXCEPT !["orderbook"] = "push"]
                    /\ ph' = Quiet
       ELSE /\ stats' = Counted(stats, "orderbook_timeout", 1)
            /\ loc' = [loc EXCEPT !["orderbook"] = NoLoc]
            /\ pc' = [pc EXCEPT !["orderbook"] = Again("orderbook", 0)]
            /\ ph' = Quiet
    /\ UNCHANGED <<shutdown, qhead, qtail, qslots, bld, next_id>>
    /\ UNCHANGED notPipeVars

\* output.push(txn): the slot is written and head stored
OrderbookPushEnd ==
    /\ pc["orderbook"] = "push"
    /\ Scheduled("orderbook")
    /\ qslots' = StoredSlots(2, loc["orderbook"].idx, loc["orderbook"].txn)
    /\ qhead' = [qhead EXCEPT ![2] = wrapping_add(loc["orderbook"].idx, 1)]
    /\ ph' = [Quiet EXCEPT !.fwd = Append(@, loc["orderbook"].rank)]
    /\ loc' = [loc EXCEPT !["orderbook"] = NoLoc]
    /\ pc' = [pc EXCEPT !["orderbook"] = Again("orderbook", 0)]
    /\ UNCHANGED <<shutdown, qtail, bld, stats, next_id, book>>
    /\ UNCHANGED notPipeVars

OrderbookNext ==
    \/ OrderbookLoop
    \/ OrderbookPopBegin
    \/ OrderbookPopEnd
    \/ \E result \in {"Ok", "Err"} : OrderbookUpdate(result)
    \/ OrderbookPushEnd

(***************************************************************************)
(* BundleBuilder::add as called by bundle_worker and by drain_pipeline,    *)
(* with the push to Q3 in two steps                                        *)
(***************************************************************************)
\* where the caller of add continues, its builder holding len events
AfterAdd(owner, len) ==
    IF owner = "bundle" THEN Again("bundle", len) ELSE "d2b"

\* bundle_worker: if builder.len() <= 1 && prev_len > 1 (bundle_flushed is
\* counted); drain_pipeline ignores the result of add
FlushCounted(owner, len, prev_len) ==
    IF owner = "bundle" /\ len <= 1 /\ prev_len > 1 THEN 1 ELSE 0

\* add is entered with the event popped: flush before the append when the
\* buffer is full or timed out, append, flush after the append when full;
\* a flush that finds Q3 full returns Err(BundleFull)
BuilderAdd(owner, expired) ==
    /\ pc[owner] = "add"
    /\ Scheduled(owner)
    /\ IF Len(bld[owner]) >= PipeBundleMax \/ (Len(bld[owner]) > 0 /\ expired)
       THEN IF PushFindsFull(3)
            THEN /\ ph' = Rejected(3)
                 /\ loc' = [loc EXCEPT ![owner] = NoLoc]
                 /\ pc' = [pc EXCEPT ![owner] =
                             AfterAdd(owner, Len(bld[owner]))]
                 /\ UNCHANGED bld
            ELSE /\ loc' = [loc EXCEPT ![owner].idx = qhead[3],
                                       ![owner].prev_len = Len(bld[owner])]
                 /\ pc' = [pc EXCEPT ![owner] = "fb_push"]
                 /\ ph' = Quiet /\ UNCHANGED bld
       ELSE /\ bld' = [bld EXCEPT ![owner] =
                         Append(@, [id |-> loc[owner].txn,
                                    rank |-> loc[owner].rank])]
            /\ IF Len(bld[owner]) + 1 >= PipeBundleMax
               THEN IF PushFindsFull(3)
                    THEN /\ ph' = Rejected(3)
                         /\ loc' = [loc EXCEPT ![owner] = NoLoc]
                         /\ pc' = [pc EXCEPT ![owner] =
                                     AfterAdd(owner, Len(bld[owner]) + 1)]
                    ELSE /\ loc' = [loc EXCEPT ![owner].idx = qhead[3],
                                               ![owner].prev_len = Len(bld[owner])]
                         /\ pc' = [pc EXCEPT ![owner] = "fa_push"]
                         /\ ph' = Quiet
               ELSE /\ loc' = [loc EXCEPT ![owner] = NoLoc]
                    /\ pc' = [pc EXCEPT ![owner] =
                                AfterAdd(owner, Len(bld[owner]) + 1)]
                    /\ ph' = Quiet
    /\ UNCHANGED <<shutdown, qhead, qtail, qslots, stats, next_id, book>>
    /\ UNCHANGED notPipeVars

\* the flush before the append completes its push: the buffer restarts with
\* the new event alone and add returns Ok
FlushBeforePushEnd(owner) ==
    /\ pc[owner] = "fb_push"
    /\ Scheduled(owner)
    /\ qslots' = StoredSlots(3, loc[owner].idx, bld[owner])
    /\ qhead' = [qhead EXCEPT ![3] = wrapping_add(loc[owner].idx, 1)]
    /\ ph' = Emitted(bld[owner])
    /\ bld' = [bld EXCEPT ![owner] =
                 <<[id |-> loc[owner].txn, rank |-> loc[owner].rank]>>]
    /\ stats' = Counted(stats, "bundle_flushed",
                        FlushCounted(owner, 1, loc[owner].prev_len))
    /\ loc' = [loc EXCEPT ![owner] = NoLoc]
    /\ pc' = [pc EXCEPT ![owner] = AfterAdd(owner, 1)]
    /\ UNCHANGED <<shutdown, qtail, next_id, book>>
    /\ UNCHANGED notPipeVars

\* the flush after the append completes its push: the buffer is empty and
\* add returns Ok
FlushAfterPushEnd(owner) ==
    /\ pc[owner] = "fa_push"
    /\ Scheduled(owner)
    /\ qslots' = StoredSlots(3, loc[owner].idx, bld[owner])
    /\ qhead' = [qhead EXCEPT ![3] = wrapping_add(loc[owner].idx, 1)]
    /\ ph' = Emitted(bld[owner])
    /\ bld' = [bld EXCEPT ![owner] = <<>>]
    /\ stats' = Counted(stats, "bundle_flushed",
                        FlushCounted(owner, 0, loc[owner].prev_len))
    /\ loc' = [loc EXCEPT ![owner] = NoLoc]
    /\ pc' = [pc EXCEPT ![owner] = AfterAdd(owner, 0)]
    /\ UNCHANGED <<shutdown, qtail, next_id, book>>
    /\ UNCHANGED notPipeVars

(***************************************************************************)
(* bundle_worker                                                           *)
(***************************************************************************)
\* while !shutdown.load(Relaxed); after the loop the remaining events are
\* flushed
BundleLoop ==
    /\ pc["bundle"] = "top"
    /\ Scheduled("bundle")
    /\ ~shutdown
    /\ pc' = [pc EXCEPT !["bundle"] = "popb"]
    /\ ph' = Quiet
    /\ UNCHANGED <<shutdown, qhead, qtail, qslots, loc, bld, stats, next_id,
                   book>>
    /\ UNCHANGED notPipeVars

\* input.pop() is entered; None: builder.should_flush_timeout() is false
\* for an empty builder, and backoff.snooze() ends the iteration
BundlePopBegin ==
    /\ pc["bundle"] = "popb"
    /\ Scheduled("bundle")
    /\ IF PopFindsEmpty(2)
       THEN /\ pc' = [pc EXCEPT !["bundle"] =
                        IF Len(bld["bundle"]) = 0 THEN Again("bundle", 0)
                        ELSE "idle"]
            /\ UNCHANGED loc
       ELSE /\ loc' = [loc EXCEPT !["bundle"] =
                         [NoLoc EXCEPT !.idx = qtail[2]]]
            /\ pc' = [pc EXCEPT !["bundle"] = "pop"]
    /\ ph' = Quiet
    /\ UNCHANGED <<shutdown, qhead, qtail, qslots, bld, stats, next_id, book>>
    /\ UNCHANGED notPipeVars

\* the slot is read and tail stored: Some(txn), prev_len = builder.len()
BundlePopEnd ==
    /\ pc["bundle"] = "pop"
    /\ Scheduled("bundle")
    /\ loc' = [loc EXCEPT
                 !["bundle"].txn = qslots[2][QIndex(2, loc["bundle"].idx)],
                 !["bundle"].rank = ph.npop2 + 1]
    /\ ph' = [Quiet EXCEPT !.npop2 = @ + 1]
    /\ qtail' = [qtail EXCEPT ![2] = wrapping_add(loc["bundle"].idx, 1)]
    /\ pc' = [pc EXCEPT !["bundle"] = "add"]
    /\ UNCHANGED <<shutdown, qhead, qslots, bld, stats, next_id, book>>
    /\ UNCHANGED notPipeVars

\* the idle check of a worker that never sees the timeout expire
BundleIdleMutNeverExpires(expired) ==
    /\ pc["bundle"] = "idle"
    /\ Scheduled("bundle")
    /\ pc' = [pc EXCEPT !["bundle"] = Again("bundle", Len(bld["bundle"]))]
    /\ ph' = Quiet
    /\ UNCHANGED <<shutdown, qhead, qtail, qslots, loc, bld, stats, next_id,
                   book>>
    /\ UNCHANGED notPipeVars

\* None with a non-empty builder: if builder.should_flush_timeout() the
\* builder is force-flushed, then backoff.snooze()
BundleIdle(expired) ==
    /\ pc["bundle"] = "idle"
    /\ Scheduled("bundle")
    /\ IF expired
       THEN IF PushFindsFull(3)
            THEN /\ ph' = Rejected(3)
                 /\ pc' = [pc EXCEPT !["bundle"] =
                             Again("bundle", Len(bld["bundle"]))]
                 /\ UNCHANGED loc
            ELSE /\ loc' = [loc EXCEPT !["bundle"] =
                              [NoLoc EXCEPT !.idx = qhead[3]]]
                 /\ pc' = [pc EXCEPT !["bundle"] = "idle_push"]
                 /\ ph' = Quiet
       ELSE /\ pc' = [pc EXCEPT !["bundle"] =
                        Again("bundle", Len(bld["bundle"]))]
            /\ ph' = Quiet /\ UNCHANGED loc
    /\ UNCHANGED <<shutdown, qhead, qtail, qslots, bld, stats, next_id, book>>
    /\ UNCHANGED notPipeVars

\* the idle flush completes its push: bundle_flushed is counted
BundleIdlePushEnd ==
    /\ pc["bundle"] = "idle_push"
    /\ Scheduled("bundle")
    /\ qslots' = StoredSlots(3, loc["bundle"].idx, bld["bundle"])
    /\ qhead' = [qhead EXCEPT ![3] = wrapping_add(loc["bundle"].idx, 1)]
    /\ ph' = Emitted(bld["bundle"])
    /\ bld' = [bld EXCEPT !["bundle"] = <<>>]
    /\ stats' = Counted(stats, "bundle_flushed", 1)
    /\ loc' = [loc EXCEPT !["bundle"] = NoLoc]
    /\ pc' = [pc EXCEPT !["bundle"] = Again("bundle", 0)]
    /\ UNCHANGED <<shutdown, qtail, next_id, book>>
    /\ UNCHANGED notPipeVars

\* where the bundle worker continues after the k-th force_flush that
\* follows its loop, its builder holding len events
AfterFinal(k, len) == IF k = 1 /\ len > 0 THEN "final2" ELSE "returned"

\* after the loop: builder.force_flush(output), made twice; neither counts
\* bundle_flushed.  The k-th one is entered with a non-empty builder
BundleFinalFlush(k) ==
    /\ pc["bundle"] = IF k = 1 THEN "final1" ELSE "final2"
    /\ Scheduled("bundle")
    /\ IF PushFindsFull(3)
       THEN /\ ph' = Rejected(3)
            /\ pc' = [pc EXCEPT !["bundle"] =
                        AfterFinal(k, Len(bld["bundle"]))]
            /\ UNCHANGED loc
       ELSE /\ loc' = [loc EXCEPT !["bundle"] =
                         [NoLoc EXCEPT !.idx = qhead[3]]]
            /\ pc' = [pc EXCEPT !["bundle"] =
                        IF k = 1 THEN "final1_push" ELSE "final2_push"]
            /\ ph' = Quiet
    /\ UNCHANGED <<shutdown, qhead, qtail, qslots, bld, stats, next_id, book>>
    /\ UNCHANGED notPipeVars

\* the k-th force_flush after the loop completes its push
BundleFinalPushEnd(k) ==
    /\ pc["bundle"] = IF k = 1 THEN "final1_push" ELSE "final2_push"
    /\ Scheduled("bundle")
    /\ qslots' = StoredSlots(3, loc["bundle"].idx, bld["bundle"])
    /\ qhead' = [qhead EXCEPT ![3] = wrapping_add(loc["bundle"].idx, 1)]
    /\ ph' = Emitted(bld["bundle"])
    /\ bld' = [bld EXCEPT !["bundle"] = <<>>]
    /\ loc' = [loc EXCEPT !["bundle"] = NoLoc]
    /\ pc' = [pc EXCEPT !["bundle"] = AfterFinal(k, 0)]
    /\ UNCHANGED <<shutdown, qtail, stats, next_id, book>>
    /\ UNCHANGED notPipeVars

BundleWorkerNext ==
    \/ BundleLoop
    \/ BundlePopBegin
    \/ BundlePopEnd
    \/ \E expired \in BOOLEAN : BuilderAdd("bundle", expired)
    \/ FlushBeforePushEnd("bundle")
    \/ FlushAfterPushEnd("bundle")
    \/ \E expired \in BOOLEAN : BundleIdle(expired)
    \/ BundleIdlePushEnd
    \/ \E k \in 1 .. 2 : BundleFinalFlush(k)
    \/ \E k \in 1 .. 2 : BundleFinalPushEnd(k)

(***************************************************************************)
(* output_worker                                                           *)
(***************************************************************************)
\* while !shutdown.load(Relaxed); after the loop the ring is drained
OutputLoop ==
    /\ pc["output"] = "top"
    /\ Scheduled("output")
    /\ ~shutdown
    /\ pc' = [pc EXCEPT !["output"] = "popb"]
    /\ ph' = Quiet
    /\ UNCHANGED <<shutdown, qhead, qtail, qslots, loc, bld, stats, next_id,
                   book>>
    /\ UNCHANGED notPipeVars

\* ring.pop() is entered: None => backoff.snooze(), and the loop goes on
OutputPopBegin ==
    /\ pc["output"] = "popb"
    /\ Scheduled("output")
    /\ IF PopFindsEmpty(3)
       THEN /\ pc' = [pc EXCEPT !["output"] = Again("output", 0)]
            /\ UNCHANGED loc
       ELSE /\ loc' = [loc EXCEPT !["output"] =
                         [NoLoc EXCEPT !.idx = qtail[3]]]
            /\ pc' = [pc EXCEPT !["output"] = "pop"]
    /\ ph' = Quiet
    /\ UNCHANGED <<shutdown, qhead, qtail, qslots, bld, stats, next_id, book>>
    /\ UNCHANGED notPipeVars

\* the slot is read and tail stored: Some(bundle); the arm of the match
\* calls output_received.fetch_add(1) before the latency computation and
\* again after it
OutputPopEnd ==
    /\ pc["output"] = "pop"
    /\ Scheduled("output")
    /\ qtail' = [qtail EXCEPT ![3] = wrapping_add(loc["output"].idx, 1)]
    /\ ph' = [Quiet EXCEPT !.npop3 = @ + 1]
    /\ stats' = Counted(Counted(stats, "output_received", 1),
                        "output_received", 1)
    /\ loc' = [loc EXCEPT !["output"] = NoLoc]
    /\ pc' = [pc EXCEPT !["output"] = Again("output", 0)]
    /\ UNCHANGED <<shutdown, qhead, qslots, bld, next_id, book>>
    /\ UNCHANGED notPipeVars

\* while let Some(_) = ring.pop(): the pop is entered
OutputDrainBegin ==
    /\ pc["output"] = "drainb"
    /\ Scheduled("output")
    /\ IF PopFindsEmpty(3)
       THEN /\ pc' = [pc EXCEPT !["output"] = "returned"]
            /\ UNCHANGED loc
       ELSE /\ loc' = [loc EXCEPT !["output"] =
                         [NoLoc EXCEPT !.idx = qtail[3]]]
            /\ pc' = [pc EXCEPT !["output"] = "drain_pop"]
    /\ ph' = Quiet
    /\ UNCHANGED <<shutdown, qhead, qtail, qslots, bld, stats, next_id, book>>
    /\ UNCHANGED notPipeVars

\* the slot is read and tail stored; output_received is counted once
OutputDrainPopEnd ==
    /\ pc["output"] = "drain_pop"
    /\ Scheduled("output")
    /\ qtail' = [qtail EXCEPT ![3] = wrapping_add(loc["output"].idx, 1)]
    /\ ph' = [Quiet EXCEPT !.npop3 = @ + 1]
    /\ stats' = Counted(stats, "output_received", 1)
    /\ loc' = [loc EXCEPT !["output"] = NoLoc]
    /\ pc' = [pc EXCEPT !["output"] = "drainb"]
    /\ UNCHANGED <<shutdown, qhead, qslots, bld, next_id, book>>
    /\ UNCHANGED notPipeVars

OutputNext ==
    \/ OutputLoop
    \/ OutputPopBegin
    \/ OutputPopEnd
    \/ OutputDrainBegin
    \/ OutputDrainPopEnd

(***************************************************************************)
(* main: shutdown, drain_pipeline, join                                    *)
(***************************************************************************)
\* thread::sleep(RUN_DURATION_SECS) ends: shutdown.store(true, Relaxed);
\* then thread::sleep(50 ms) and the call of drain_pipeline.  A worker at the
\* head of its loop leaves it
SignalShutdown ==
    /\ pc["main"] = "run"
    /\ Scheduled("main")
    /\ shutdown' = TRUE
    /\ pc' = [t \in PipeThreads |->
                IF t = "main" THEN "d1b"
                ELSE IF pc[t] = "top" THEN AfterLoop(t, Len(bld["bundle"]))
                ELSE pc[t]]
    /\ ph' = Quiet
    /\ UNCHANGED <<qhead, qtail, qslots, loc, bld, stats, next_id, book>>
    /\ UNCHANGED notPipeVars

\* the pop of one of the loops of drain_pipeline is entered: step 1 pops
\* Q1, step 2 pops Q2, step 4 pops Q3; None ends the loop
DrainPopBegin(q) ==
    /\ pc["main"] = CASE q = 1 -> "d1b" [] q = 2 -> "d2b" [] q = 3 -> "d4b"
    /\ Scheduled("main")
    /\ IF PopFindsEmpty(q)
       THEN /\ pc' = [pc EXCEPT !["main"] =
                        CASE q = 1 -> "d2b"
                          [] q = 2 -> IF Len(bld["main"]) = 0 THEN "d4b"
                                      ELSE "d3"
                          [] q = 3 -> "join"]
            /\ UNCHANGED loc
       ELSE /\ loc' = [loc EXCEPT !["main"] = [NoLoc EXCEPT !.idx = qtail[q]]]
            /\ pc' = [pc EXCEPT !["main"] =
                        CASE q = 1 -> "d1_pop" [] q = 2 -> "d2_pop"
                          [] q = 3 -> "d4_pop"]
    /\ ph' = Quiet
    /\ UNCHANGED <<shutdown, qhead, qtail, qslots, bld, stats, next_id, book>>
    /\ UNCHANGED notPipeVars

\* step 1: ingress_ring.pop() returns Some(txn)
DrainPop1End ==
    /\ pc["main"] = "d1_pop"
    /\ Scheduled("main")
    /\ loc' = [loc EXCEPT !["main"].txn =
                 qslots[1][QIndex(1, loc["main"].idx)]]
    /\ qtail' = [qtail EXCEPT ![1] = wrapping_add(loc["main"].idx, 1)]
    /\ pc' = [pc EXCEPT !["main"] = "d1_fwd"]
    /\ ph' = [Quiet EXCEPT !.dpop1 = @ + 1]
    /\ UNCHANGED <<shutdown, qhead, qslots, bld, stats, next_id, book>>
    /\ UNCHANGED notPipeVars

\* step 1: the drain's own book is updated (result ignored),
\* orderbook_processed counted and bundle_ring.push entered (result ignored)
DrainForward ==
    /\ pc["main"] = "d1_fwd"
    /\ Scheduled("main")
    /\ stats' = Counted(stats, "orderbook_processed", 1)
    /\ book' = [book EXCEPT !["main"] = @ + 1]
    /\ IF PushFindsFull(2)
       THEN /\ ph' = Rejected(2)
            /\ loc' = [loc EXCEPT !["main"] = NoLoc]
            /\ pc' = [pc EXCEPT !["main"] = "d1b"]
       ELSE /\ loc' = [loc EXCEPT !["main"].idx = qhead[2]]
            /\ pc' = [pc EXCEPT !["main"] = "d1_push"]
            /\ ph' = Quiet
    /\ UNCHANGED <<shutdown, qhead, qtail, qslots, bld, next_id>>
    /\ UNCHANGED notPipeVars

\* step 1: bundle_ring.push(txn) writes the slot and stores head
DrainPushEnd ==
    /\ pc["main"] = "d1_push"
    /\ Scheduled("main")
    /\ qslots' = StoredSlots(2, loc["main"].idx, loc["main"].txn)
    /\ qhead' = [qhead EXCEPT ![2] = wrapping_add(loc["main"].idx, 1)]
    /\ loc' = [loc EXCEPT !["main"] = NoLoc]
    /\ pc' = [pc EXCEPT !["main"] = "d1b"]
    /\ ph' = [Quiet EXCEPT !.dfwd = @ + 1]
    /\ UNCHANGED <<shutdown, qtail, bld, stats, next_id, book>>
    /\ UNCHANGED notPipeVars

\* step 2: bundle_ring.pop() returns Some(txn), builder.add is called
DrainPop2End ==
    /\ pc["main"] = "d2_pop"
    /\ Scheduled("main")
    /\ loc' = [loc EXCEPT
                 !["main"].txn = qslots[2][QIndex(2, loc["main"].idx)],
                 !["main"].rank = ph.npop2 + 1]
    /\ ph' = [Quiet EXCEPT !.npop2 = @ + 1]
    /\ qtail' = [qtail EXCEPT ![2] = wrapping_add(loc["main"].idx, 1)]
    /\ pc' = [pc EXCEPT !["main"] = "add"]
    /\ UNCHANGED <<shutdown, qhead, qslots, bld, stats, next_id, book>>
    /\ UNCHANGED notPipeVars

\* step 3: if !builder.is_empty() the builder is force-flushed (the step
\* is entered with a non-empty builder)
DrainFlush ==
    /\ pc["main"] = "d3"
    /\ Scheduled("main")
    /\ IF PushFindsFull(3)
       THEN /\ ph' = Rejected(3)
            /\ pc' = [pc EXCEPT !["main"] = "d4b"]
            /\ UNCHANGED loc
       ELSE /\ loc' = [loc EXCEPT !["main"] =
                         [NoLoc EXCEPT !.idx = qhead[3]]]
            /\ pc' = [pc EXCEPT !["main"] = "d3_push"]
            /\ ph' = Quiet
    /\ UNCHANGED <<shutdown, qhead, qtail, qslots, bld, stats, next_id, book>>
    /\ UNCHANGED notPipeVars

\* step 3: the force_flush completes its push: bundle_flushed is counted
DrainFlushPushEnd ==
    /\ pc["main"] = "d3_push"
    /\ Scheduled("main")
    /\ qslots' = StoredSlots(3, loc["main"].idx, bld["main"])
    /\ qhead' = [qhead EXCEPT ![3] = wrapping_add(loc["main"].idx, 1)]
    /\ ph' = Emitted(bld["main"])
    /\ bld' = [bld EXCEPT !["main"] = <<>>]
    /\ stats' = Counted(stats, "bundle_flushed", 1)
    /\ loc' = [loc EXCEPT !["main"] = NoLoc]
    /\ pc' = [pc EXCEPT !["main"] = "d4b"]
    /\ UNCHANGED <<shutdown, qtail, next_id, book>>
    /\ UNCHANGED notPipeVars

\* step 4: output_ring.pop() returns Some(_): output_received is counted
DrainPop3End ==
    /\ pc["main"] = "d4_pop"
    /\ Scheduled("main")
    /\ qtail' = [qtail EXCEPT ![3] = wrapping_add(loc["main"].idx, 1)]
    /\ ph' = [Quiet EXCEPT !.npop3 = @ + 1]
    /\ stats' = Counted(stats, "output_received", 1)
    /\ loc' = [loc EXCEPT !["main"] = NoLoc]
    /\ pc' = [pc EXCEPT !["main"] = "d4b"]
    /\ UNCHANGED <<shutdown, qhead, qslots, bld, next_id, book>>
    /\ UNCHANGED notPipeVars

\* for handle in handles { handle.join() }: returns once every worker has
\* returned
Join ==
    /\ pc["main"] = "join"
    /\ Scheduled("main")
    /\ \A w \in Workers : pc[w] = "returned"
    /\ pc' = [pc EXCEPT !["main"] = "done"]
    /\ ph' = Quiet
    /\ UNCHANGED <<shutdown, qhead, qtail, qslots, loc, bld, stats, next_id,
                   book>>
    /\ UNCHANGED notPipeVars

MainNext ==
    \/ SignalShutdown
    \/ \E q \in Queues : DrainPopBegin(q)
    \/ DrainPop1End
    \/ DrainForward
    \/ DrainPushEnd
    \/ DrainPop2End
    \/ \E expired \in BOOLEAN : BuilderAdd("main", expired)
    \/ FlushBeforePushEnd("main")
    \/ FlushAfterPushEnd("main")
    \/ DrainFlush
    \/ DrainFlushPushEnd
    \/ DrainPop3End
    \/ Join

PipeNext ==
    \/ IngressNext
    \/ OrderbookNext
    \/ BundleWorkerNext
    \/ OutputNext
    \/ MainNext

(***************************************************************************)
(* Specifications.                                                         *)
(***************************************************************************)
Init ==
    /\ RingInit /\ BookInit /\ BundleInit /\ BackoffInit /\ HistInit
    /\ PctInit /\ TypesInit /\ PipeInit

SpecRing == Init /\ [][RingNext]_vars

(***************************************************************************)
(* The book of the orderbook worker (src/src/main.rs, orderbook_worker):   *)
(* the worker owns its OrderBook and is its only writer; for each event    *)
(* popped from Q1 it issues one update, whose side and delta follow from   *)
(* the event.  The events are arbitrary: any price of the model or         *)
(* i64::MAX, any size of a u32 (0, 1 or u32::MAX at the model's width).    *)
(***************************************************************************)
WorkerPrices == Prices \cup {I64_MAX}
WorkerSizes == {0, 1, U32_MAX}

\* seeded fault: the size is applied with a positive sign on both sides
WorkerDeltaMutPositive(side, size) == size

\* let delta = if txn.is_bid() { txn.size as i64 } else { -(txn.size as i64) }
WorkerDelta(side, size) == IF side = "bid" THEN size ELSE 0 - size

\* if txn.is_bid() { book.update_bid(txn.price, delta, txn.timestamp_ns) }
\* else { book.update_ask(txn.price, delta, txn.timestamp_ns) }
WorkerCall ==
    \E side \in Sides, price \in WorkerPrices, size \in WorkerSizes,
       ts \in Timestamps :
        UpdateCall(1, side, price, WorkerDelta(side, size), ts)

\* the worker alone writes its book, MaxCallsWorker events flowing through
WorkerBookNext ==
    \/ ncalls[1] < MaxCallsWorker /\ WorkerCall
    \/ UpdateStep(1)

\* OrderBook::spread (ask - bid cannot overflow where the model reaches it)
spread ==
    IF best_ask = I64_MAX \/ best_bid = 0 THEN 0 ELSE best_ask - best_bid

SpecBook == Init /\ [][BookNext]_vars

SpecBookWorker == Init /\ [][WorkerBookNext]_vars

SpecBookSeq == Init /\ [][BookSeqNext]_vars

SpecBundle == Init /\ [][BundleNext]_vars

SpecBackoff == Init /\ [][BackoffNext]_vars

SpecHist == Init /\ [][HistNext]_vars

SpecPct == Init /\ [][PctNext]_vars

SpecTypes == Init /\ [][TypesNext]_vars

SpecPipe == Init /\ [][PipeNext]_vars

\* the workers and the main thread are OS threads on cores of their own:
\* each of them keeps being scheduled
SpecPipeFair ==
    /\ Init /\ [][PipeNext]_vars
    /\ WF_vars(IngressNext)
    /\ WF_vars(OrderbookNext)
    /\ WF_vars(BundleWorkerNext)
    /\ WF_vars(OutputNext)
    /\ WF_vars(MainNext)

\* the pipeline while the main thread sleeps for the run duration (main.rs
\* 230) and the flag stays false: the steps of the four workers inside
\* their loops
BundleSteadyNext ==
    \/ BundleLoop
    \/ BundlePopBegin
    \/ BundlePopEnd
    \/ \E expired \in BOOLEAN : BuilderAdd("bundle", expired)
    \/ FlushBeforePushEnd("bundle")
    \/ FlushAfterPushEnd("bundle")
    \/ \E expired \in BOOLEAN : BundleIdle(expired)
    \/ BundleIdlePushEnd

OutputSteadyNext == OutputLoop \/ OutputPopBegin \/ OutputPopEnd

SteadyNext ==
    \/ IngressNext
    \/ OrderbookNext
    \/ BundleSteadyNext
    \/ OutputSteadyNext

\* the workers are OS threads on cores of their own: each of them keeps
\* being scheduled.  The clock advances (rdtsc): a builder that stays
\* non-empty is found past its timeout again and again by the idle check
SpecPipeSteady ==
    /\ Init /\ [][SteadyNext]_vars
    /\ WF_vars(IngressNext)
    /\ WF_vars(OrderbookNext)
    /\ WF_vars(BundleSteadyNext)
    /\ SF_vars(BundleIdle(TRUE))
    /\ WF_vars(OutputSteadyNext)

(***************************************************************************)
(* Claims about the ring buffer (checked under SpecRing).                  *)
(***************************************************************************)
\* head - tail as the number of accepted pushes minus the number of pops
Occupancy == Len(pushed) - Len(popped)

RingTypeOK ==
    /\ head \in 0 .. WordMod - 1
    /\ tail \in 0 .. WordMod - 1
    /\ slots \in [0 .. N - 1 -> Values \cup {Uninit}]
    /\ prod.pc \in {"idle", "load_head", "load_tail", "check", "write",
                    "store_head"}
    /\ cons.pc \in {"idle", "load_tail", "load_head", "check", "read",
                    "store_tail"}
    /\ offered \in 0 .. MaxPush

\* C1: with one producer in push and one consumer in pop, interleaved load
\* by load and store by store, in every reachable state 0 <= head - tail <= N:
\* the counted occupancy lies in 0 .. N and is what the wrapped counters give.
C1_OccupancyBounded ==
    /\ Occupancy \in 0 .. N
    /\ wrapping_sub(head, tail) = Occupancy

\* C1 witness: the queue is full while push and pop are both in flight
C1_Witness ==
    /\ wrapping_sub(head, tail) = N
    /\ prod.pc = "check"
    /\ cons.pc = "store_tail"

\* C2: under any interleaving the sequence of values returned by successful
\* pops is a prefix of the sequence of values accepted by successful pushes.
C2_PoppedIsPrefixOfPushed ==
    /\ Len(popped) <= Len(pushed)
    /\ \A i \in 1 .. Len(popped) : i <= Len(pushed) /\ popped[i] = pushed[i]

\* C2 witness: three values popped, not all equal, while a push is in flight
C2_Witness ==
    /\ Len(popped) >= 3
    /\ popped[1] # popped[2]
    /\ prod.pc = "store_head"

\* what C3 requires of every step
C3_StepOK ==
    /\ (prod.pc = "check" /\ prod' # prod) =>
          IF prod.occ = N
            THEN /\ prod'.pc = "idle" /\ prod'.result = "Err"
                 /\ prod'.ret = prod.value
                 /\ UNCHANGED <<head, tail, slots>>
            ELSE /\ prod.occ < N /\ prod'.pc = "write"
    /\ (prod' # prod) => tail' = tail
    /\ (prod' # prod /\ prod.pc \notin {"write", "store_head"}) =>
          UNCHANGED <<head, slots>>
    /\ (prod.pc \in {"write", "store_head"}) => prod.occ < N
    /\ (prod.pc = "write" /\ prod' # prod) =>
          /\ prod'.pc = "store_head" /\ head' = head
    /\ (prod.pc = "store_head" /\ prod' # prod) =>
          /\ prod'.pc = "idle" /\ prod'.result = "Ok"
          /\ head' = wrapping_add(head, 1)
    /\ (head' # head) => prod'.result = "Ok"
    /\ (cons.pc = "check" /\ cons' # cons) =>
          IF cons.occ = 0
            THEN /\ cons'.pc = "idle" /\ cons'.result = "None"
                 /\ UNCHANGED <<head, tail, slots>>
            ELSE cons'.pc = "read"
    /\ (cons' # cons) => UNCHANGED <<head, slots>>
    /\ (cons' # cons /\ cons.pc # "store_tail") => tail' = tail
    /\ (cons.pc \in {"read", "store_tail"}) => cons.occ > 0
    /\ (cons.pc = "store_tail" /\ cons' # cons) =>
          /\ cons'.pc = "idle" /\ cons'.result = "Some"
          /\ tail' = wrapping_add(tail, 1)
    /\ (tail' # tail) => cons'.result = "Some"

\* C3: a push that finds the queue full (occupancy N at its load of tail)
\* returns Err with the value it was given and writes neither head, tail nor
\* a slot; a push that finds occupancy < N goes on to write, and its store
\* advances head by exactly 1 and returns Ok; no push step changes tail.  A
\* pop that finds head = tail returns None and writes nothing; a successful
\* pop advances tail by exactly 1; no pop step changes head.
C3_FullAndEmptyResults == [][C3_StepOK]_vars

\* C3 witness: a push was refused with its value on a full queue, and later a
\* pop found the queue empty
C3_Witness ==
    /\ prod.pc = "idle" /\ prod.result = "Err" /\ prod.ret \in Values
    /\ prod.occ = N
    /\ cons.pc = "idle" /\ cons.result = "None"
    /\ Len(popped) >= N

\* C4: at every moment pops <= accepted pushes <= push calls, and when a pop
\* that began after the producer stopped returns None, every accepted value
\* has been popped.
C4_NoLoss ==
    /\ Len(popped) <= Len(pushed)
    /\ Len(pushed) <= offered
    /\ (cons.pc = "idle" /\ cons.result = "None" /\ quiet) =>
          Len(popped) = Len(pushed)

\* C4 witness: drained after some pushes were accepted and some refused
C4_Witness ==
    /\ cons.pc = "idle" /\ cons.result = "None" /\ quiet
    /\ Len(pushed) >= 3
    /\ offered > Len(pushed)

(***************************************************************************)
(* Claims about the order book.                                            *)
(***************************************************************************)
\* positions of a call after its CAS on the level quantity succeeded
PostCas == {"store_ts", "best_load", "best_cas", "deplete_load",
            "deplete_store"}

AllIdle == \A t \in Threads : th[t].pc = "idle"

\* the book's shared memory
bookShared == <<bids, asks, best_bid, best_ask>>

FitsI64(x) == x >= I64_MIN /\ x <= I64_MAX

BookTypeOK ==
    /\ \A l \in Levels :
          /\ FitsI64(bids[l].quantity) /\ FitsI64(asks[l].quantity)
          /\ bids[l].timestamp \in {0} \cup Timestamps
          /\ asks[l].timestamp \in {0} \cup Timestamps
    /\ best_bid \in {0} \cup Prices
    /\ best_ask \in {I64_MAX} \cup Prices
    /\ \A t \in Threads :
          /\ th[t].pc \in {"idle", "load", "cas"} \cup PostCas
          /\ th[t].result \in {"none", "pending", "Ok", "QuantityOverflow",
                               "Timeout"}

\* sum of the deltas of the calls in threads ts whose CAS on level l of side s
\* succeeded and which have not returned yet
RECURSIVE InFlight(_, _, _)
InFlight(ts, s, l) ==
    IF ts = {} THEN 0
    ELSE LET t == CHOOSE x \in ts : TRUE
         IN  (IF th[t].pc \in PostCas /\ th[t].side = s
                   /\ level_index(th[t].price) = l
                THEN th[t].delta ELSE 0) + InFlight(ts \ {t}, s, l)

\* C5: with several threads calling update_bid/update_ask concurrently, once
\* all calls have returned the quantity of every level of each side is the
\* sum of the deltas of exactly the calls that returned Ok on that level (and,
\* while calls are in flight, that sum plus the deltas already applied by the
\* calls that have not returned yet).
C5_QuantityIsSumOfOkDeltas ==
    /\ AllIdle =>
          \A l \in Levels : /\ bids[l].quantity = applied["bid"][l]
                            /\ asks[l].quantity = applied["ask"][l]
    /\ \A l \in Levels :
          /\ bids[l].quantity = applied["bid"][l] + InFlight(Threads, "bid", l)
          /\ asks[l].quantity = applied["ask"][l] + InFlight(Threads, "ask", l)

\* C5 witness: two threads have each added 1 to bid level 1 and returned
C5_Witness ==
    /\ AllIdle
    /\ th[1].result = "Ok" /\ th[2].result = "Ok"
    /\ bids[1].quantity = 2

\* what C6 requires of every step
C6_StepOK ==
    /\ \A l \in Levels : FitsI64(bids[l].quantity) /\ FitsI64(asks[l].quantity)
    /\ \A t \in Threads :
          LET q == LevelsOf(th[t].side)[level_index(th[t].price)].quantity
          IN  /\ (th[t].pc = "load" /\ th'[t] # th[t]) =>
                    /\ UNCHANGED bookShared
                    /\ IF FitsI64(q + th[t].delta)
                         THEN th'[t].pc = "cas" /\ th'[t].new_qty = q + th[t].delta
                         ELSE th'[t].pc = "idle"
                              /\ th'[t].result = "QuantityOverflow"
              /\ (th'[t].result = "QuantityOverflow" /\ th'[t] # th[t]) =>
                    th[t].pc = "load" /\ ~FitsI64(q + th[t].delta)
              /\ (th[t].pc = "idle" /\ th'[t] # th[t]) => UNCHANGED bookShared

\* C6: an update whose level quantity plus delta does not fit the signed
\* integer returns QuantityOverflow at that load and writes nothing: the
\* quantity, the timestamp, best_bid and best_ask are unchanged; no other
\* step returns QuantityOverflow; no step of a call before its CAS succeeded
\* writes the book; every quantity stays in the integer's range.
C6_OverflowRejected == [][C6_StepOK]_vars

\* C6 witness: bid level 1 holds the largest integer and thread 2's update of
\* it was rejected
C6_Witness ==
    /\ bids[1].quantity = I64_MAX
    /\ bids[1].timestamp # 0
    /\ th[2].pc = "idle" /\ th[2].result = "QuantityOverflow"

\* what C7 requires of every step
C7_StepOK ==
    \A t \in Threads :
        /\ th[t].pc \in {"load", "cas"} => th[t].attempt < MAX_RETRIES
        /\ (th[t].pc = "cas" /\ th'[t] # th[t]) =>
              \/ /\ th'[t].pc = "store_ts"
                 /\ IF th[t].side = "bid"
                      THEN bids'[level_index(th[t].price)].quantity
                             = th[t].new_qty
                      ELSE asks'[level_index(th[t].price)].quantity
                             = th[t].new_qty
              \/ /\ th[t].attempt + 1 < MAX_RETRIES
                 /\ th'[t].pc = "load" /\ th'[t].attempt = th[t].attempt + 1
                 /\ UNCHANGED bookShared
              \/ /\ th[t].attempt + 1 = MAX_RETRIES
                 /\ th'[t].pc = "idle" /\ th'[t].result = "Timeout"
                 /\ UNCHANGED bookShared
        /\ (th'[t].result = "Timeout" /\ th'[t] # th[t]) =>
              th[t].pc = "cas" /\ th[t].attempt + 1 = MAX_RETRIES
        /\ (th[t].pc \in PostCas /\ th'[t].pc = "idle") => th'[t].result = "Ok"
        /\ (th'[t].result = "Ok" /\ th'[t] # th[t]) => th[t].pc \in PostCas
        /\ (th[t].pc \in {"idle", "load"} /\ th'[t] # th[t]) =>
              UNCHANGED bookShared

\* C7: a call makes at most MAX_RETRIES CAS attempts on the level quantity:
\* the first successful CAS leaves the loop and the call then returns Ok; a
\* failed CAS is followed by another attempt, except the MAX_RETRIES-th,
\* which returns Timeout; Timeout is returned in no other way, and a call
\* that returns Timeout has written neither quantity, timestamp nor best
\* price.
C7_BoundedRetries == [][C7_StepOK]_vars

\* C7 witness: thread 1 timed out while thread 2's update went through
C7_Witness ==
    /\ th[1].pc = "idle" /\ th[1].result = "Timeout"
    /\ th[2].pc = "idle" /\ th[2].result = "Ok"

\* C8: when no update_bid left a quantity <= 0, once all calls have returned
\* best_bid is the maximum of 0 and the prices of the successful calls;
\* when no update_ask left a quantity <= 0, best_ask is the minimum of
\* i64::MAX and the prices of the successful calls.
C8_BestIsExtreme ==
    AllIdle =>
        /\ ~depleted["bid"] => best_bid = hi_bid
        /\ ~depleted["ask"] => best_ask = lo_ask

\* C8 witness: two threads updated bids at 32 and at 16400, the higher stays
C8_Witness ==
    /\ AllIdle
    /\ ~depleted["bid"]
    /\ th[1].result = "Ok" /\ th[2].result = "Ok"
    /\ bids[1].quantity > 0 /\ bids[2].quantity > 0
    /\ best_bid = 16400

\* what C9 requires of every step
C9_StepOK ==
    LET t == 1
        side == th[t].side
        other == IF side = "bid" THEN best_ask ELSE best_bid
        other_next == IF side = "bid" THEN best_ask' ELSE best_bid'
        best_next == IF side = "bid" THEN best_bid' ELSE best_ask'
    IN  /\ (th[t].pc = "store_ts" /\ th'[t] # th[t]) =>
              /\ th[t].new_qty
                   = LevelsOf(side)[level_index(th[t].price)].quantity
              /\ (th'[t].pc = "deplete_load") = (th[t].new_qty <= 0)
              /\ UNCHANGED <<best_bid, best_ask>>
        /\ (th[t].pc = "deplete_load" /\ th'[t] # th[t]) =>
              /\ UNCHANGED bookShared
              /\ IF th[t].price = BestOf(side)
                   THEN th'[t].pc = "deplete_store"
                   ELSE th'[t].pc = "idle" /\ th'[t].result = "Ok"
        /\ (th[t].pc = "deplete_store" /\ th'[t] # th[t]) =>
              /\ th[t].price = BestOf(side)
              /\ best_next = (IF side = "bid" THEN 0 ELSE I64_MAX)
              /\ other_next = other
              /\ UNCHANGED <<bids, asks>>
              /\ th'[t].pc = "idle" /\ th'[t].result = "Ok"

\* C9: in single-writer use, a successful update whose resulting quantity is
\* <= 0 reads the best price of its side: if its price is that best price
\* the best price becomes 0 (bid) / i64::MAX (ask), otherwise it is left
\* unchanged; the other side's best price and every level are left alone.
C9_DepletedBestCleared == [][C9_StepOK]_vars

\* C9 witness: the bid at 32 was the best and was depleted: best_bid is 0
\* although level 1 still holds a positive quantity
C9_Witness ==
    /\ th[1].pc = "idle" /\ th[1].result = "Ok"
    /\ hi_bid = 32 /\ depleted["bid"]
    /\ bids[2].quantity = 0
    /\ bids[1].quantity > 0
    /\ best_bid = 0

BundleTypeOK ==
    /\ builder.count \in 0 .. BUNDLE_MAX
    /\ Len(outq) <= OutCap
    /\ bcall.ret \in {"none", "Ok", "BundleFull", "panic"}

\* the step is a call of add / of flush or force_flush
IsAddStep == nadds' = nadds + 1
IsFlushStep == nflushes' = nflushes + 1

\* the bundles the step pushed
Pushed == SubSeq(emitted', Len(emitted) + 1, Len(emitted'))

\* bundle b holds exactly the first cnt events of buffer buf
Holds(b, buf, cnt) ==
    /\ b.count = cnt
    /\ \A i \in 0 .. cnt - 1 : b.transactions[i] = buf[i]

\* what C11 requires of every step
C11_StepOK ==
    /\ \A i \in 1 .. Len(Pushed) :
          1 <= Pushed[i].count /\ Pushed[i].count <= 16
    /\ (IsFlushStep /\ builder.count = 0) =>
          /\ bcall'.ret = "Ok"
          /\ Pushed = <<>>
          /\ outq' = outq

\* C11: every bundle the builder pushes to the output queue, whatever the
\* calls of add, flush and force_flush before it (failed and retried flushes
\* included), has 1 <= count <= 16; a flush of an empty builder pushes
\* nothing and returns Ok.
C11_BundleCountBounded == [][C11_StepOK]_vars

\* a flush of an empty builder returned Ok after bundles of 1 and of 16
\* events were pushed, one of them by a flush retried after a failure
C11_Witness ==
    /\ bcall.op \in {"flush", "force_flush"}
    /\ bcall.had = 0
    /\ bcall.ret = "Ok"
    /\ \E i, j \in 1 .. Len(emitted) :
          emitted[i].count = 1 /\ emitted[j].count = BUNDLE_MAX

\* what C12 requires of every step: the count stays in range, add writes
\* inside the buffer, and each time the count fell from a positive value to
\* 0 (before the write of an add, after it, or in a flush call) one bundle
\* holding the events counted was pushed
C12_StepOK ==
    LET dropBefore == IsAddStep /\ builder.count > 0 /\ bcall'.slot = 0
        dropAfter == IsAddStep /\ bcall'.slot >= 0 /\ builder'.count = 0
        dropFlush == IsFlushStep /\ builder.count > 0 /\ builder'.count = 0
        drops == (IF dropBefore THEN 1 ELSE 0) + (IF dropAfter THEN 1 ELSE 0)
                 + (IF dropFlush THEN 1 ELSE 0)
    IN  /\ builder'.count \in 0 .. 16
        /\ bcall'.ret # "panic"
        /\ bcall'.slot < 16
        /\ Len(Pushed) = drops
        /\ (dropBefore \/ dropFlush) =>
              Holds(Pushed[1], builder.buffer, builder.count)
        /\ dropAfter =>
              /\ Holds(Pushed[Len(Pushed)], builder'.buffer, bcall'.slot + 1)
              /\ builder'.buffer[bcall'.slot] = bcall'.txn
              /\ ~dropBefore =>
                    /\ bcall'.slot = builder.count
                    /\ \A i \in 0 .. builder.count - 1 :
                          builder'.buffer[i] = builder.buffer[i]

\* C12: in every reachable state 0 <= count <= 16 and add never writes a
\* buffer slot at an index >= 16, whatever successful and failed flushes
\* came before; the count goes from a positive value to 0 only inside a
\* flush that pushed a bundle holding exactly those count events.
C12_CountInRange == [][C12_StepOK]_vars

\* an add found 16 events left by a failed flush, flushed them and wrote the
\* new event to slot 0
C12_Witness ==
    /\ bcall.op = "add"
    /\ bcall.had = BUNDLE_MAX
    /\ bcall.before
    /\ bcall.slot = 0
    /\ bcall.ret = "Ok"
    /\ emitted # <<>>
    /\ emitted[Len(emitted)].count = BUNDLE_MAX

\* C13: starting from an empty builder with room in the output queue and no
\* timeout elapsing, fewer than 16 adds emit nothing; the 16th add itself
\* emits exactly one bundle with count = 16 whose slots 0..15 hold the 16
\* events in the order they were added, and leaves the builder empty.
C13_SixteenAddsEmitOne ==
    run.clean =>
        /\ Len(run.evs) <= 16
        /\ Len(run.evs) < 16 =>
              /\ run.out = 0
              /\ builder.count = Len(run.evs)
        /\ Len(run.evs) = 16 =>
              /\ run.out = 1
              /\ bcall.op = "add" /\ bcall.pushed = 1 /\ bcall.ret = "Ok"
              /\ builder.count = 0
              /\ emitted # <<>>
              /\ emitted[Len(emitted)].count = 16
              /\ \A i \in 0 .. 15 :
                    emitted[Len(emitted)].transactions[i] = run.evs[i + 1]

\* sixteen adds in a row went into an empty builder, after earlier bundles
C13_Witness ==
    /\ run.clean
    /\ Len(run.evs) = BUNDLE_MAX
    /\ Len(emitted) >= 2

\* what C14 requires of every step
C14_StepOK ==
    /\ (IsFlushStep /\ builder.count > 0 /\ Len(outq) >= OutCap) =>
          /\ bcall'.ret = "BundleFull"
          /\ Pushed = <<>>
          /\ outq' = outq
          /\ builder'.count = builder.count
          /\ builder'.buffer = builder.buffer
          /\ builder'.start_tsc = builder.start_tsc
    /\ (IsFlushStep /\ pending.set /\ Len(outq) < OutCap) =>
          /\ bcall'.ret = "Ok"
          /\ Len(Pushed) = 1
          /\ Holds(Pushed[1], pending.self.buffer, pending.self.count)
          /\ Pushed[1].timestamp_ns = tsc_to_ns(pending.self.start_tsc)
          /\ outq' = Append(outq, Pushed[1])

\* C14: flush (and force_flush) on a non-empty builder when the output queue
\* is full returns BundleFull, pushes nothing and leaves count, the buffered
\* events and the open timestamp unchanged; a later flush, once the queue
\* has room, emits exactly those events.
C14_FailedFlushKeepsBuffer == [][C14_StepOK]_vars

\* a force_flush retried after a failed flush and pushed the bundle
C14_Witness ==
    /\ bcall.op = "force_flush"
    /\ bcall.retry
    /\ bcall.ret = "Ok"
    /\ bcall.pushed = 1
    /\ bcall.had > 1

\* what C15 requires of every step
C15_StepOK ==
    (IsAddStep /\ builder.count = 16 /\ Len(outq) >= OutCap) =>
        /\ bcall'.before
        /\ bcall'.ret = "BundleFull"
        /\ builder'.count = 16
        /\ \A i \in 0 .. 15 : builder'.buffer[i] = builder.buffer[i]
        /\ bcall'.slot = 0 - 1
        /\ Pushed = <<>>
        /\ outq' = outq

\* C15: add on a builder already holding 16 events while the output queue is
\* full attempts a flush, returns BundleFull and overwrites none of the 16
\* buffered events: count stays 16, slots 0..15 are unchanged and the new
\* event is not stored.
C15_AddAtCapKeepsBuffer == [][C15_StepOK]_vars

\* an add found 16 buffered events and a full queue
C15_Witness ==
    /\ bcall.op = "add"
    /\ bcall.had = BUNDLE_MAX
    /\ ~bcall.room
    /\ bcall.ret = "BundleFull"
    /\ builder.count = BUNDLE_MAX

\* the ticks that make up the bundle timeout
TimeoutTicks == BUNDLE_TIMEOUT_NS * TicksPerNs

\* what C16 says of the flush before appending, as stated: the elapsed time
\* exceeds the timeout
C16_StatedStepOK ==
    IsAddStep =>
        (bcall'.before <=>
            \/ builder.count >= 16
            \/ /\ builder.count > 0
               /\ tsc - builder.start_tsc > TimeoutTicks)

\* C16 as stated: before appending, add flushes if and only if the buffer is
\* already full, or it is non-empty and the time elapsed since it was opened
\* exceeds the bundle timeout.
C16_FlushIffExceeds == [][C16_StatedStepOK]_vars

\* what the amended C16 requires of every step
C16_StepOK ==
    LET timedOut == builder.count > 0
                    /\ tsc - builder.start_tsc >= TimeoutTicks
    IN  IsAddStep =>
        /\ bcall'.before <=> (builder.count >= 16 \/ timedOut)
        /\ (timedOut /\ Len(outq) < OutCap) =>
              /\ bcall'.ret = "Ok"
              /\ Len(Pushed) = 1
              /\ Holds(Pushed[1], builder.buffer, builder.count)
              /\ \A i \in 0 .. builder.count - 1 :
                    Pushed[1].transactions[i] # bcall'.txn
              /\ builder'.count = 1
              /\ builder'.buffer[0] = bcall'.txn
              /\ builder'.start_tsc = tsc

\* C16 (amended): before appending, add flushes if and only if the buffer is
\* already full, or it is non-empty and the time elapsed since it was opened
\* is at least the bundle timeout (100 000 ns); a flush on timeout with room
\* in the output queue emits exactly the events buffered before and not the
\* new one, and leaves the builder holding only the new event (count = 1)
\* with a freshly reset open timestamp.
C16_FlushIffAtLeast == [][C16_StepOK]_vars

\* an add found a part-filled buffer opened exactly one timeout ago, flushed
\* it and kept only the new event
C16_Witness ==
    /\ bcall.op = "add"
    /\ bcall.had \in 1 .. BUNDLE_MAX - 1
    /\ bcall.elapsed = TimeoutTicks
    /\ bcall.before
    /\ bcall.ret = "Ok"
    /\ bcall.pushed = 1
    /\ builder.count = 1
    /\ builder.start_tsc > 0

(***************************************************************************)
(* Claims about the backoff (checked under SpecBackoff).                   *)
(***************************************************************************)
BackoffTypeOK ==
    /\ step \in 0 .. U32_MAX
    /\ snz.pc \in {"idle", "spin", "yield", "sleep", "bump"}
    /\ did.kind \in {"none", "spin", "yield", "sleep"}

RECURSIVE SumTo(_, _)
SumTo(f, n) == IF n < 0 THEN 0 ELSE f[n] + SumTo(f, n - 1)

\* the sum of the 13 bucket counters
BucketSum == SumTo(buckets, 12)

\* no call of record is in flight
HistQuiet == \A t \in Recorders : ht[t].pc = "idle"

SetMin(S) == CHOOSE x \in S : \A y \in S : x <= y
SetMax(S) == CHOOSE x \in S : \A y \in S : x >= y

HistTypeOK ==
    /\ \A b \in 0 .. 12 : buckets[b] \in 0 .. U64_MAX
    /\ total_samples \in 0 .. U64_MAX
    /\ total_latency_ns \in 0 .. U64_MAX
    /\ min_latency_ns \in 0 .. U64_MAX
    /\ max_latency_ns \in 0 .. U64_MAX

\* C18 as stated: in every reachable state of any interleaving of record
\* calls the sum of the 13 bucket counters equals total_samples.
C18_SumEqualsTotalAlways == BucketSum = total_samples

\* C18 (amended): in every reachable state the sum of the 13 bucket counters
\* equals total_samples plus the number of record calls that have added to
\* their bucket and not yet to total_samples; the two are equal whenever no
\* record call is in flight.
C18_SumTracksTotal ==
    /\ BucketSum = total_samples
                   + Cardinality({t \in Recorders : ht[t].pc = "samples"})
    /\ HistQuiet => BucketSum = total_samples

\* a call has added to its bucket and not yet to total_samples, after
\* samples were recorded in two buckets at least
C18_Witness ==
    /\ \E t \in Recorders : ht[t].pc = "samples"
    /\ total_samples >= 2
    /\ BucketSum > total_samples
    /\ Cardinality({b \in 0 .. 12 : buckets[b] > 0}) >= 2

\* C19: after the record calls issued concurrently by several threads have
\* completed, min_latency_ns is the smallest and max_latency_ns the largest
\* sample recorded; losing a CAS race never makes a more extreme sample go
\* missing.
C19_MinMaxAreExtremes ==
    (HistQuiet /\ seen # {}) =>
        /\ min_latency_ns = SetMin(seen)
        /\ max_latency_ns = SetMax(seen)

\* a thread lost a race on min or max while its sample was the more
\* extreme one, and its sample is the extreme recorded in the end
C19_Witness ==
    /\ HistQuiet
    /\ \E t \in Recorders :
          /\ ht[t].lost
          /\ ht[t].latency_ns \in {min_latency_ns, max_latency_ns}
    /\ Cardinality(seen) >= 3

\* C20: after one or more record calls have completed, none being in flight
\* and the sum of the samples fitting the word,
\* min_latency_ns <= total_latency_ns / total_samples <= max_latency_ns.
C20_MeanBetweenMinAndMax ==
    (HistQuiet /\ seen # {} /\ sum_ns < 2 ^ U64Bits) =>
        /\ total_samples > 0
        /\ min_latency_ns <= total_latency_ns \div total_samples
        /\ total_latency_ns \div total_samples <= max_latency_ns

\* three samples or more were recorded and their mean lies strictly between
\* the smallest and the largest
C20_Witness ==
    /\ HistQuiet
    /\ total_samples >= 3
    /\ sum_ns < 2 ^ U64Bits
    /\ min_latency_ns < total_latency_ns \div total_samples
    /\ total_latency_ns \div total_samples < max_latency_ns

(***************************************************************************)
(* Claims about percentile (checked under SpecPct).                        *)
(***************************************************************************)
\* the count of buckets 0 .. i at the time of the last percentile call
CumulativeTo(i) == SumTo(pq.bs, i)

\* ceil(num / PctDen * total)
CeilTarget(total, num) == (total * num + PctDen - 1) \div PctDen

\* the lowest-indexed bucket whose cumulative count reaches the target
FirstReaching(target) ==
    CHOOSE i \in 0 .. 12 :
        /\ CumulativeTo(i) >= target
        /\ \A j \in 0 .. i - 1 : CumulativeTo(j) < target

\* C21: for a histogram holding total > 0 samples and any p in [0, 1],
\* percentile(p) returns the fixed midpoint of the lowest-indexed bucket at
\* which the cumulative count first reaches ceil(p * total); for an empty
\* histogram it returns 0
C21_PercentileNearestRank ==
    pq.called =>
        IF pq.total = 0 THEN pq.ret = 0
        ELSE pq.ret = Midpoint(FirstReaching(CeilTarget(pq.total, pq.num)))

(***************************************************************************)
(* Claims about Transaction (checked under SpecTypes).                     *)
(***************************************************************************)
\* the arguments of the last constructor call pass the three validations
ArgsValid == tcall.side <= 1 /\ tcall.price > 0 /\ tcall.size # 0

\* C22: Transaction::new returns Ok with exactly the given fields iff
\* side <= 1, price > 0 and size # 0; otherwise InvalidSide(side) if
\* side > 1, else NegativePrice(price) if price <= 0 (zero included), else
\* ZeroSize: the side check precedes the price check, the price check the
\* size check
C22_NewValidatesInOrder ==
    tcall.ctor = "new" =>
        /\ tcall.ret.kind = "Ok" <=> ArgsValid
        /\ tcall.ret.kind = "Ok" =>
              /\ tcall.ret.val.id = tcall.id
              /\ tcall.ret.val.price = tcall.price
              /\ tcall.ret.val.size = tcall.size
              /\ tcall.ret.val.side = tcall.side
              /\ tcall.ret.val.ingress_ts_ns = tcall.ingress_ts_ns
        /\ ~ArgsValid =>
              IF tcall.side > 1
              THEN tcall.ret.kind = "InvalidSide" /\ tcall.ret.arg = tcall.side
              ELSE IF tcall.price <= 0
              THEN /\ tcall.ret.kind = "NegativePrice"
                   /\ tcall.ret.arg = tcall.price
              ELSE tcall.ret.kind = "ZeroSize"

\* new is called with an invalid side, a price of zero and a size of zero
C22_Witness ==
    /\ tcall.ctor = "new" /\ tcall.op = "new"
    /\ tcall.side > 1 /\ tcall.price = 0 /\ tcall.size = 0
    /\ tcall.ret.kind = "InvalidSide"

\* C23: for every event record x (any id, price, size, side and ingress
\* timestamp, validated or not), from_bytes(to_bytes(x)) = x, field for
\* field
C23_RoundTrip ==
    tcall.op = "from_bytes" => tcall.back = tcall.ret.val

\* a record that fails the validation (negative price, zero size, side 255)
\* has gone through to_bytes and from_bytes
C23_Witness ==
    /\ tcall.op = "from_bytes"
    /\ tcall.ctor = "new_unchecked"
    /\ tcall.price < 0 /\ tcall.size = 0 /\ tcall.side = 255
    /\ tcall.id = 258 /\ tcall.ingress_ts_ns = 1234567890
    /\ tcall.back.price = tcall.price

(***************************************************************************)
(* Claims about the pipeline (checked under SpecPipe).                     *)
(***************************************************************************)
\* C24: during the whole run (shutdown signal, drain_pipeline, the workers'
\* post-loop flush and drain, join) no queue has two threads inside push at
\* the same time nor two threads inside pop at the same time
C24_OneProducerOneConsumer ==
    \A q \in Queues : \A t, u \in PipeThreads :
        t # u => /\ ~(InPush(t, q) /\ InPush(u, q))
                 /\ ~(InPop(t, q) /\ InPop(u, q))

\* C25 (every worker returns once the flag is set) is not decided by this
\* model: a run is followed up to the first breach of the ring contract,
\* which drain_pipeline can cause while the workers still run (C24), and
\* whether output_worker's drain loop ends after it depends on head and
\* tail of Q3 at their full width of 64 bits.

\* the content of queue q, oldest first
InQueue(q) ==
    [i \in 1 .. wrapping_sub(qhead[q], qtail[q]) |->
        qslots[q][QIndex(q, wrapping_add(qtail[q], i - 1))]]

\* the numbers of s are strictly increasing
IsIncreasing(s) == \A i, j \in DOMAIN s : i < j => s[i] < s[j]

\* C26: the ids of the events in Q1 are strictly increasing in queue order;
\* the events the orderbook worker pushes to Q2 keep the order in which
\* they were popped from Q1; the concatenation, in push order, of the
\* payloads of the bundles pushed to Q3 keeps the order in which those
\* events were popped from Q2
C26_OrderPreserved ==
    /\ IsIncreasing(InQueue(1))
    /\ IsIncreasing(ph.fwd)
    /\ IsIncreasing(ph.emitted)

\* the ingress worker is between two iterations of its loop, or has returned
IngressBetweenIterations == pc["ingress"] \in {"top", "returned"}

\* C27: after every completed ingress iteration generated = pushed +
\* dropped; as long as nothing has been popped from Q1 (a burst of M =
\* generated events into the empty queue of capacity N), pushed = min(M, N)
\* and dropped = M - min(M, N)
C27_DropAccounting ==
    IngressBetweenIterations =>
        /\ stats.ingress_generated
              = stats.ingress_pushed + stats.ingress_dropped
        /\ qtail[1] = 0 =>
              /\ stats.ingress_pushed
                    = Min(stats.ingress_generated, QueueCap(1))
              /\ stats.ingress_dropped
                    = stats.ingress_generated
                        - Min(stats.ingress_generated, QueueCap(1))

\* a burst larger than the queue went into Q1 with no consumer: one event
\* more than the capacity was offered and dropped
C27_Witness ==
    /\ IngressBetweenIterations
    /\ qtail[1] = 0
    /\ stats.ingress_generated = QueueCap(1) + 1
    /\ stats.ingress_pushed = QueueCap(1)
    /\ stats.ingress_dropped = 1

\* C28: whenever a stage finds its downstream queue full (ingress Q1,
\* orderbook Q2, bundle builder Q3) it does not wait and the drop counter
\* is incremented for that occurrence
C28_BackpressureCounted ==
    [][ph'.full # 0 => stats'.ingress_dropped = stats.ingress_dropped + 1]_vars

\* C29: output_received is incremented exactly once per bundle popped from
\* Q3: whenever no pop of Q3 is in progress it equals the number of bundles
\* popped from Q3 by the output worker and by the drain
C29_ReceivedOncePerBundle ==
    (\A t \in PipeThreads : ~InPop(t, 3)) =>
        stats.output_received = ph.npop3

\* C30: bundle_flushed counts every emission to Q3 exactly once, whether
\* size-triggered, timeout-triggered inside add or by the idle check, or
\* made at shutdown; nothing else increments it
C30_FlushedCountsEmissions == stats.bundle_flushed = ph.nemit3

(***************************************************************************)
(* Claims about the pipeline before shutdown (C31 under SpecPipeSteady).   *)
(***************************************************************************)
\* the event popped r-th from Q2 is in the bundle worker's builder
InBuilder(r) ==
    \E i \in DOMAIN bld["bundle"] : bld["bundle"][i].rank = r

\* the event popped r-th from Q2 was pushed to Q3 in a bundle
EmittedRank(r) == \E i \in DOMAIN ph.emitted : ph.emitted[i] = r

\* C31: while shutdown is not signalled and the output worker keeps popping
\* Q3, every event accepted into the bundle worker's builder is eventually
\* pushed to Q3 in a bundle, even if no further event arrives on Q2 (the
\* idle timeout check force-flushes the builder)
C31_BufferedEventEmitted ==
    \A r \in 1 .. MaxGenerated : InBuilder(r) ~> EmittedRank(r)

\* a single buffered event was emitted by the idle check as a bundle of
\* count 1, no other event having reached Q2
C31_Witness ==
    /\ ~shutdown
    /\ ph.npop2 = 1 /\ ph.emitted = <<1>>
    /\ stats.bundle_flushed = 1
    /\ Len(qslots[3][0]) = 1
    /\ qhead[2] = 1

(***************************************************************************)
(* Claims about the slots of the ring buffer (checked under SpecRing).     *)
(***************************************************************************)
\* the slot of the k-th accepted push (head starts at 0 and N divides the
\* word)
SlotOfPush(k) == (k - 1) % N

\* the accepted pushes not yet released by a tail store
Unreleased == Len(popped) + 1 .. Len(pushed)

\* C32: the consumer reads a slot only after the producer's write to it is
\* complete and published by the head store; the producer writes a slot
\* only after the consumer has read its value and released it by the tail
\* store; no slot is about to be written and read at the same time, and no
\* pushed value is overwritten before being popped
C32_SlotSafety ==
    /\ cons.pc = "read" =>
          /\ Len(popped) < Len(pushed)
          /\ SlotIndex(cons.tail) = SlotOfPush(Len(popped) + 1)
          /\ slots[SlotIndex(cons.tail)] = pushed[Len(popped) + 1]
    /\ prod.pc = "write" =>
          \A k \in Unreleased : SlotOfPush(k) # SlotIndex(prod.head)
    /\ ~(/\ prod.pc = "write" /\ cons.pc = "read"
         /\ SlotIndex(prod.head) = SlotIndex(cons.tail))
    /\ \A k \in Unreleased : slots[SlotOfPush(k)] = pushed[k]

\* C32 witness: the producer is about to write one slot while the consumer
\* is about to read the other, the slots having been used before
C32_Witness ==
    /\ prod.pc = "write" /\ cons.pc = "read"
    /\ SlotIndex(prod.head) # SlotIndex(cons.tail)
    /\ Len(popped) >= N
    /\ slots[SlotIndex(prod.head)] # prod.value

\* C33: when head and tail wrap around their word the occupancy computed
\* as (head - tail) mod 2^w is the number of values held and lies in
\* 0 .. N, the full and empty tests are exact, the slot index of the next
\* push and of the next pop continue the sequence of slots across the
\* wrap, and the values popped are the values pushed, in order
C33_WrapAround ==
    /\ head = Len(pushed) % WordMod
    /\ tail = Len(popped) % WordMod
    /\ wrapping_sub(head, tail) = Len(pushed) - Len(popped)
    /\ wrapping_sub(head, tail) \in 0 .. N
    /\ IsFull(head, tail) <=> Len(pushed) - Len(popped) = N
    /\ IsEmpty(tail, head) <=> Len(pushed) = Len(popped)
    /\ SlotIndex(head) = Len(pushed) % N
    /\ SlotIndex(tail) = Len(popped) % N
    /\ \A i \in 1 .. Len(popped) : popped[i] = pushed[i]

\* C33 witness: head has wrapped and tail has not, the queue is full, and
\* a pop has read the value of the oldest push
C33_Witness ==
    /\ Len(pushed) > WordMod
    /\ head < tail
    /\ wrapping_sub(head, tail) = N
    /\ cons.pc = "store_tail"
    /\ cons.value = pushed[Len(popped) + 1]

(***************************************************************************)
(* More claims about the order book (checked under SpecBook).              *)
(***************************************************************************)
\* prices asked of bid_quantity / ask_quantity: 16 and 31 lie in one bucket
\* of 16 ticks, 32 in the next, 16400 is 16384 ticks above 16
QueryPrices == {16, 31, 32, 16400}

\* the prices asked with the same (price >> 4) & 1023 as p
SameBucket(p) ==
    {q \in QueryPrices :
        BitAnd(ShiftRight(q, 4), 1023) = BitAnd(ShiftRight(p, 4), 1023)}

\* the quantities of a side with the level of index idx left out
OtherLevels(levels, idx) == [l \in Levels \ {idx} |-> levels[l].quantity]

\* the quantities of every level of a side
Quantities(levels) == [l \in Levels |-> levels[l].quantity]

\* a step of a call on the bid side (on = bids, off = asks, off_best =
\* best_ask) or on the ask side, given the values before and after the
\* step: the other side and its best price are left alone, and so are the
\* levels of this side but the level idx, which changes by delta when the
\* step is the compare-and-swap that succeeds (cas), and not otherwise
C34_FrameOK(on, on2, off, off2, off_best, off_best2, idx, delta, cas) ==
    /\ Quantities(off2) = Quantities(off)
    /\ off_best2 = off_best
    /\ OtherLevels(on2, idx) = OtherLevels(on, idx)
    /\ on2[idx].quantity = on[idx].quantity + (IF cas THEN delta ELSE 0)

\* what C34 requires of a step of a call of thread t
C34_CallStepOK(t) ==
    LET idx == BitAnd(ShiftRight(th[t].price, 4), 1023)
        cas == th[t].pc = "cas" /\ th'[t].pc = "store_ts"
    IN  /\ idx = level_index(th[t].price)
        /\ IF th[t].side = "bid"
             THEN C34_FrameOK(bids, bids', asks, asks', best_ask, best_ask',
                              idx, th[t].delta, cas)
             ELSE C34_FrameOK(asks, asks', bids, bids', best_bid, best_bid',
                              idx, th[t].delta, cas)
        /\ th'[t].result = "Ok" =>
               th[t].pc \in {"best_load", "best_cas", "deplete_load",
                             "deplete_store"}

\* what C34 requires of every step
C34_StepOK ==
    /\ \A t \in Threads :
          (th[t].pc # "idle" /\ th'[t] # th[t]) => C34_CallStepOK(t)
    /\ \A p \in QueryPrices : \A q \in SameBucket(p) :
          /\ bid_quantity(p) = bid_quantity(q)
          /\ ask_quantity(p) = ask_quantity(q)

\* C34: a successful update_bid(price, delta, ts) changes the quantity of
\* the bid level (price >> 4) & 1023 alone, once and by delta, and leaves
\* the other bid levels, the ask levels and best_ask unchanged
\* (symmetrically for update_ask); bid_quantity and ask_quantity give the
\* same value for prices of one 16-tick bucket and for prices 16384 ticks
\* apart
C34_UpdateFrame == [][C34_StepOK]_vars

\* C34 witness: two updates of the bid side, at prices 16 and 16400, have
\* both added their delta to level 1, and level 2 is as it was
C34_Witness ==
    /\ th[1].pc = "store_ts" /\ th[1].side = "bid" /\ th[1].price = 16400
    /\ th[2].pc = "store_ts" /\ th[2].side = "bid" /\ th[2].price = 16
    /\ th[1].delta = 1 /\ th[2].delta = 1
    /\ bid_quantity(31) = 2
    /\ bid_quantity(32) = 0

\* thread t is in an update of the given side whose compare-and-swap
\* stored a positive quantity on the level of its price, and is about to
\* publish that price as the best one
Supplies(t, side, price) ==
    /\ th[t].pc = "best_cas"
    /\ th[t].side = side
    /\ th[t].price = price
    /\ th[t].new_qty > 0
    /\ th[t].new_qty = th[t].current + th[t].delta

\* what C35 requires of every step
C35_StepOK ==
    /\ best_bid \in Prices \cup {0}
    /\ best_ask \in Prices \cup {I64_MAX}
    /\ (best_bid' # best_bid /\ best_bid' # 0) =>
          \E t \in Threads : Supplies(t, "bid", best_bid')
    /\ (best_ask' # best_ask /\ best_ask' # I64_MAX) =>
          \E t \in Threads : Supplies(t, "ask", best_ask')

\* C35: with concurrent writers, best_bid starts at 0 and every other value
\* it takes is the price of an update_bid whose compare-and-swap had just
\* left its level positive; best_ask starts at i64::MAX and every other
\* value it takes is the price of such an update_ask: the best price is
\* never a value that no update supplied
C35_BestPriceSupplied == [][C35_StepOK]_vars

\* C35 witness: both best prices have been set by the two writers
C35_Witness ==
    /\ best_bid \in Prices /\ best_ask \in Prices
    /\ \A t \in Threads : th[t].pc = "idle" /\ th[t].result = "Ok"

(***************************************************************************)
(* Claims about the shutdown of the pipeline (checked under SpecPipe).     *)
(***************************************************************************)
\* drain_pipeline has returned and every worker has returned
Stopped ==
    /\ pc["main"] \in {"join", "done"}
    /\ \A w \in Workers : pc[w] = "returned"

\* C36: when drain_pipeline has returned and the workers have stopped, Q1,
\* Q2 and Q3 are empty, no event remains in a bundle builder, every event
\* the drain popped from Q1 was pushed to Q2, every event popped from Q2
\* was pushed to Q3 in a bundle, and every bundle pushed to Q3 was popped
C36_DrainLosesNothing ==
    Stopped =>
        /\ \A q \in Queues : qhead[q] = qtail[q]
        /\ \A b \in Builders : bld[b] = <<>>
        /\ ph.dfwd = ph.dpop1
        /\ Len(ph.emitted) = ph.npop2
        /\ ph.npop3 = ph.nemit3

\* C37: the events the main thread drains from Q1 are applied to the order
\* book the orderbook worker updated during the run: once everything has
\* stopped that book has received every event counted as processed, by the
\* worker or by the drain, and no other book has received any
C37_SingleBook ==
    /\ \A b \in Books \ {"orderbook"} : book[b] = 0
    /\ Stopped => book["orderbook"] = stats.orderbook_processed

(***************************************************************************)
(* Claims about the orderbook worker (checked under SpecPipe).             *)
(***************************************************************************)
\* the events the orderbook worker has popped from Q1 and counted
WorkerDone == ph.npop1 - (IF pc["orderbook"] = "update" THEN 1 ELSE 0)

\* the events drain_pipeline has popped from Q1 and counted
DrainDone == ph.dpop1 - (IF pc["main"] = "d1_fwd" THEN 1 ELSE 0)

\* the orderbook worker enters output.push only in the step in which the
\* update of the event returned Ok and orderbook_processed was counted,
\* a step that counts orderbook_timeout neither enters the push nor
\* touches Q2, and each event counted by the worker was counted once,
\* either as applied to its book or as a timeout
C38_ForwardOnlyOk ==
    /\ (pc["orderbook"] = "update" /\ pc'["orderbook"] = "push") =>
          /\ book'["orderbook"] = book["orderbook"] + 1
          /\ stats'.orderbook_processed = stats.orderbook_processed + 1
          /\ stats'.orderbook_timeout = stats.orderbook_timeout
    /\ pc'["orderbook"] = "push" => pc["orderbook"] \in {"update", "push"}
    /\ stats'.orderbook_timeout # stats.orderbook_timeout =>
          /\ stats'.orderbook_timeout = stats.orderbook_timeout + 1
          /\ stats'.orderbook_processed = stats.orderbook_processed
          /\ pc["orderbook"] = "update" /\ pc'["orderbook"] # "push"
          /\ qhead'[2] = qhead[2] /\ qslots'[2] = qslots[2]
    /\ book["orderbook"] + stats.orderbook_timeout = WorkerDone
    /\ Len(ph.fwd) + (IF pc["orderbook"] = "push" THEN 1 ELSE 0)
          <= book["orderbook"]

\* C38 as stated: the worker forwards an event to Q2 only if its update
\* returned Ok, counts exactly one of orderbook_processed and
\* orderbook_timeout for each event it pops, and orderbook_processed +
\* orderbook_timeout always equals the number of events the worker has
\* finished processing
C38_ProcessedPlusTimeout ==
    [][/\ C38_ForwardOnlyOk
       /\ stats.orderbook_processed + stats.orderbook_timeout
             = WorkerDone]_vars

\* C38 amended: orderbook_processed is also counted by drain_pipeline for
\* each event it pops from Q1, so the sum equals the number of events the
\* worker has finished processing plus the number the drain has counted
C38_ProcessedPlusTimeoutWithDrain ==
    [][/\ C38_ForwardOnlyOk
       /\ stats.orderbook_processed + stats.orderbook_timeout
             = WorkerDone + DrainDone]_vars

\* C38 witness: the worker has forwarded an event, counted a timeout for
\* another, and the drain has counted a third
C38_Witness ==
    /\ Len(ph.fwd) = 1
    /\ stats.orderbook_timeout = 1
    /\ book["orderbook"] = 1
    /\ ph.dpop1 = 1 /\ DrainDone = 1
    /\ stats.orderbook_processed = 2

(***************************************************************************)
(* More claims about the bundle builder (checked under SpecBundle).        *)
(***************************************************************************)
\* the events in the active slots of a buffer holding cnt events
ActiveSet(buffer, cnt) == {buffer[i] : i \in 0 .. cnt - 1}

\* the events buffered in the builder
BufferedSet == ActiveSet(builder.buffer, builder.count)

\* the events of the j-th bundle pushed to the output queue
EmittedSet(j) == ActiveSet(emitted[j].transactions, emitted[j].count)

\* the events of all the bundles pushed to the output queue
AllEmitted == UNION {EmittedSet(j) : j \in 1 .. Len(emitted)}

\* what C39 requires of every step
C39_StepOK ==
    /\ Cardinality(BufferedSet) = builder.count
    /\ \A j \in 1 .. Len(emitted) :
          /\ Cardinality(EmittedSet(j)) = emitted[j].count
          /\ EmittedSet(j) \cap BufferedSet = {}
          /\ \A k \in 1 .. Len(emitted) :
                j # k => EmittedSet(j) \cap EmittedSet(k) = {}
    /\ BufferedSet \subseteq BufferedSet' \cup AllEmitted'
    /\ AllEmitted \subseteq AllEmitted'
    /\ (bcall.op = "add" /\ bcall.ret = "BundleFull" /\ bcall.after) =>
          /\ bcall.txn \in BufferedSet
          /\ Len(Pushed) > 0 =>
                bcall.txn \in ActiveSet(Pushed[1].transactions,
                                        Pushed[1].count)

\* C39: over any calls of add, flush and force_flush on one builder, the
\* pushes to the output queue succeeding or failing, no event is emitted
\* twice: the events of a bundle are distinct, no two bundles share an
\* event, and no buffered event is in a bundle already pushed; a buffered
\* event stays buffered until it is in a bundle, and the event stored by
\* an add whose flush after the append returned BundleFull is in the
\* bundle of the next flush that succeeds
C39_NoEventEmittedTwice == [][C39_StepOK]_vars

\* C39 witness: an add stored the sixteenth event and returned BundleFull
\* from the flush after the append, and a later flush pushed the bundle
\* holding that event
C39_Witness ==
    /\ bcall.op \in {"flush", "force_flush"}
    /\ bcall.retry /\ bcall.ret = "Ok" /\ bcall.pushed = 1
    /\ bcall.had = BUNDLE_MAX
    /\ Len(emitted) >= 2
    /\ emitted[Len(emitted)].count = BUNDLE_MAX

(***************************************************************************)
(* Claims about the book of the orderbook worker (checked under            *)
(* SpecBookWorker).                                                        *)
(***************************************************************************)
\* C40: the worker applies delta = +size to the bid side for bid events and
\* delta = -size to the ask side for ask events; so in every state of its
\* book no ask level has a positive quantity, best_ask is i64::MAX and
\* spread() returns 0, whatever events flow through
C40_AsksNeverPositive ==
    /\ th[1].pc # "idle" =>
          /\ th[1].side = "bid" => th[1].delta >= 0
          /\ th[1].side = "ask" => th[1].delta <= 0
    /\ \A l \in Levels :
          /\ applied["bid"][l] >= 0
          /\ applied["ask"][l] <= 0
          /\ asks[l].quantity <= 0
    /\ best_ask = I64_MAX
    /\ spread = 0

\* C40 witness: the worker has applied bid and ask events of positive size:
\* a bid level is positive and is the best bid, an ask level is negative
C40_Witness ==
    /\ th[1].pc = "idle" /\ th[1].result = "Ok" /\ ncalls[1] = MaxCallsWorker
    /\ best_bid > 0
    /\ \E l \in Levels : bids[l].quantity > 0
    /\ \E l \in Levels : asks[l].quantity < 0
    /\ asks[level_index(I64_MAX)].quantity < 0

====
